---- MODULE Spec2Model ----
(***************************************************************************)
(* The word-resolution pipeline of learn-daily-word: the route handler     *)
(* GET word-for-date, generateWordWithSmartBank, the two deterministic     *)
(* selectors (FallbackWordsSystem.getWordByDate, SmartWordBank             *)
(* .getWordForDate) and the daily_words table behind WordsDatabase.        *)
(*                                                                         *)
(* A date string is kept as the sequence of its "-"-separated parts, each  *)
(* part a sequence of one-character strings, so that the format test and   *)
(* Number.parseInt are computed on characters.  The phonetic field of the  *)
(* catalog entries is written in ASCII; no property reads it.              *)
(*                                                                         *)
(* The parts are also taken alone, each with its own specification: the    *)
(* selectors, generateWord and parseJSONResponse of the generator, the     *)
(* operations of WordsDatabase, the history and search endpoints, and the  *)
(* browser client's fetch of the word of the selected date.                *)
(***************************************************************************)
EXTENDS Integers, Sequences, FiniteSets, TLC

\* Number of requests that can be in flight at the same time.
NumClients == 2

Clients == 1..NumClients

\* JavaScript null, a thrown exception, and NaN (an integer no computation
\* of the model yields).
Null == [kind |-> "null"]
Thrown == [kind |-> "throw"]
NaN == -1000000

-----------------------------------------------------------------------------
(* Date strings *)

DigitChars == <<"0", "1", "2", "3", "4", "5", "6", "7", "8", "9">>

IsDigit(ch) == \E i \in 1..10 : DigitChars[i] = ch

DigitVal(ch) == (CHOOSE i \in 1..10 : DigitChars[i] = ch) - 1

RECURSIVE Pow10(_)
Pow10(k) == IF k = 0 THEN 1 ELSE 10 * Pow10(k - 1)

\* n written with w decimal digits (padStart with "0").
Digits(n, w) == [i \in 1..w |-> DigitChars[((n \div Pow10(w - i)) % 10) + 1]]

Date(y, m, d) == << Digits(y, 4), Digits(m, 2), Digits(d, 2) >>

\* Variant of MatchesDateFormat: /^\d+-\d+-\d+$/
MatchesDateFormatAnyLength(d) ==
  /\ Len(d) = 3
  /\ \A p \in 1..3 : Len(d[p]) >= 1 /\ \A i \in 1..Len(d[p]) : IsDigit(d[p][i])

\* /^\d{4}-\d{2}-\d{2}$/.test(date)
MatchesDateFormat(d) ==
  /\ Len(d) = 3
  /\ Len(d[1]) = 4 /\ Len(d[2]) = 2 /\ Len(d[3]) = 2
  /\ \A p \in 1..3 : \A i \in 1..Len(d[p]) : IsDigit(d[p][i])

\* Number.parseInt(part): the value of the leading run of digits, NaN when
\* the part does not start with a digit.
RECURSIVE LeadingDigits(_, _)
LeadingDigits(part, acc) ==
  IF part = << >> \/ ~IsDigit(Head(part))
    THEN acc
    ELSE LeadingDigits(Tail(part), 10 * acc + DigitVal(Head(part)))

ParseDigits(part) ==
  IF part = << >> \/ ~IsDigit(Head(part)) THEN NaN ELSE LeadingDigits(part, 0)

\* White space at the front is skipped and a sign is read before the digits.
RECURSIVE SkipSpaces(_)
SkipSpaces(part) ==
  IF part # << >> /\ Head(part) = " " THEN SkipSpaces(Tail(part)) ELSE part

ParseInt(part) ==
  LET p == SkipSpaces(part)
  IN  IF p # << >> /\ Head(p) \in { "-", "+" }
        THEN LET n == ParseDigits(Tail(p))
             IN  IF n = NaN THEN NaN ELSE IF Head(p) = "-" THEN 0 - n ELSE n
        ELSE ParseDigits(p)

\* a + b and a % n of JavaScript numbers, NaN included.
JsAdd(a, b) == IF a = NaN \/ b = NaN THEN NaN ELSE a + b
JsMod(a, n) == IF a = NaN \/ n = 0 THEN NaN ELSE a % n

\* Variant of DateHash: the digits of the three parts read as one number.
DateHashConcat(d) ==
  IF \E p \in 1..Len(d) : ParseInt(d[p]) = NaN THEN NaN
  ELSE ParseInt(d[1]) * 10000 + ParseInt(d[2]) * 100 + ParseInt(d[3])

\* date.split("-").reduce((acc, part) => acc + Number.parseInt(part), 0)
RECURSIVE SumParts(_, _)
SumParts(parts, acc) ==
  IF parts = << >> THEN acc
  ELSE SumParts(Tail(parts), JsAdd(acc, ParseInt(Head(parts))))

DateHash(d) == SumParts(d, 0)

-----------------------------------------------------------------------------
(* The catalogs *)

fallbackWords ==
  <<
    [ date |-> Date(2024, 1, 1),
      word |-> "serendipity",
      phonetic |-> "/serendipity/",
      definition |-> "The occurrence of events by chance in a happy or beneficial way",
      translation |-> "casualidad afortunada, chiripa",
      examples |-> << "Meeting you here was pure serendipity!",
        "It was serendipity that led me to find this amazing cafe.",
        "Sometimes the best discoveries happen through serendipity." >>,
      level |-> "C1",
      source |-> "manual" ],
    [ date |-> Date(2024, 1, 2),
      word |-> "procrastinate",
      phonetic |-> "/procrastinate/",
      definition |-> "To delay or postpone action; to put off doing something",
      translation |-> "procrastinar, postergar",
      examples |-> << "I tend to procrastinate when I have difficult tasks.",
        "Don't procrastinate on your homework anymore!",
        "She always procrastinates until the last minute." >>,
      level |-> "B2",
      source |-> "manual" ],
    [ date |-> Date(2024, 1, 3),
      word |-> "eloquent",
      phonetic |-> "/eloquent/",
      definition |-> "Fluent and persuasive in speaking or writing",
      translation |-> "elocuente, persuasivo",
      examples |-> << "Her eloquent speech moved the entire audience.",
        "He's quite eloquent when discussing his passions.",
        "The lawyer made an eloquent argument in court." >>,
      level |-> "C1",
      source |-> "manual" ],
    [ date |-> Date(2024, 1, 4),
      word |-> "resilient",
      phonetic |-> "/resilient/",
      definition |-> "Able to recover quickly from difficult conditions",
      translation |-> "resistente, resiliente",
      examples |-> << "Children are remarkably resilient creatures.",
        "The city proved resilient after the natural disaster.",
        "You need to be resilient to succeed in business." >>,
      level |-> "B2",
      source |-> "manual" ],
    [ date |-> Date(2024, 1, 5),
      word |-> "ubiquitous",
      phonetic |-> "/ubiquitous/",
      definition |-> "Present, appearing, or found everywhere",
      translation |-> "omnipresente, ubicuo",
      examples |-> << "Smartphones have become ubiquitous in modern society.",
        "Coffee shops are ubiquitous in this neighborhood.",
        "Social media is ubiquitous among young people." >>,
      level |-> "C1",
      source |-> "manual" ],
    [ date |-> Date(2024, 1, 6),
      word |-> "ambiguous",
      phonetic |-> "/ambiguous/",
      definition |-> "Open to more than one interpretation; not having one obvious meaning",
      translation |-> "ambiguo, poco claro",
      examples |-> << "His response was deliberately ambiguous.",
        "The contract terms are too ambiguous.",
        "She gave an ambiguous answer to avoid conflict." >>,
      level |-> "B2",
      source |-> "manual" ],
    [ date |-> Date(2024, 1, 7),
      word |-> "ephemeral",
      phonetic |-> "/ephemeral/",
      definition |-> "Lasting for a very short time",
      translation |-> "efimero, pasajero",
      examples |-> << "The beauty of cherry blossoms is ephemeral.",
        "Fame can be quite ephemeral in today's world.",
        "Their happiness felt ephemeral but intense." >>,
      level |-> "C1",
      source |-> "manual" ],
    [ date |-> Date(2024, 1, 8),
      word |-> "meticulous",
      phonetic |-> "/meticulous/",
      definition |-> "Showing great attention to detail; very careful and precise",
      translation |-> "meticuloso, minucioso",
      examples |-> << "She's meticulous about keeping her workspace organized.",
        "The detective conducted a meticulous investigation.",
        "His meticulous planning ensured the project's success." >>,
      level |-> "B2",
      source |-> "manual" ],
    [ date |-> Date(2024, 1, 9),
      word |-> "pragmatic",
      phonetic |-> "/pragmatic/",
      definition |-> "Dealing with things sensibly and realistically",
      translation |-> "pragmatico, practico",
      examples |-> << "We need a pragmatic approach to solve this problem.",
        "She's very pragmatic when making business decisions.",
        "His pragmatic advice helped us avoid costly mistakes." >>,
      level |-> "C1",
      source |-> "manual" ],
    [ date |-> Date(2024, 1, 10),
      word |-> "versatile",
      phonetic |-> "/versatile/",
      definition |-> "Able to adapt or be adapted to many different functions or activities",
      translation |-> "versatil, polivalente",
      examples |-> << "This versatile tool can be used for many tasks.",
        "She's a versatile actress who can play any role.",
        "The versatile ingredient works in both sweet and savory dishes." >>,
      level |-> "B2",
      source |-> "manual" ],
    [ date |-> Date(2024, 1, 11),
      word |-> "innovative",
      phonetic |-> "/innovative/",
      definition |-> "Featuring new methods; advanced and original",
      translation |-> "innovador, novedoso",
      examples |-> << "The company is known for its innovative approach to technology.",
        "She came up with an innovative solution to the problem.",
        "This innovative design has revolutionized the industry." >>,
      level |-> "B2",
      source |-> "manual" ],
    [ date |-> Date(2024, 1, 12),
      word |-> "sophisticated",
      phonetic |-> "/sophisticated/",
      definition |-> "Having great knowledge or experience; complex and refined",
      translation |-> "sofisticado, refinado",
      examples |-> << "The restaurant offers sophisticated cuisine from around the world.",
        "She has a sophisticated understanding of international politics.",
        "The software uses sophisticated algorithms to analyze data." >>,
      level |-> "C1",
      source |-> "manual" ]
  >>

words28 ==
  <<
    [ word |-> "articulate",
      phonetic |-> "/articulate/",
      definition |-> "Having or showing the ability to speak fluently and coherently",
      translation |-> "articulado, elocuente",
      examples |-> << "She's very articulate when explaining complex topics.",
        "The speaker gave an articulate presentation on climate change.",
        "He struggled to articulate his feelings about the situation." >>,
      level |-> "C1" ],
    [ word |-> "comprehensive",
      phonetic |-> "/comprehensive/",
      definition |-> "Complete and including everything that is necessary",
      translation |-> "completo, exhaustivo",
      examples |-> << "The report provides a comprehensive analysis of the market.",
        "She has comprehensive knowledge of European history.",
        "The insurance policy offers comprehensive coverage." >>,
      level |-> "B2" ],
    [ word |-> "substantial",
      phonetic |-> "/substantial/",
      definition |-> "Of considerable importance, size, or worth",
      translation |-> "sustancial, considerable",
      examples |-> << "There has been substantial progress in medical research.",
        "The company made substantial investments in new technology.",
        "She received a substantial salary increase this year." >>,
      level |-> "B2" ],
    [ word |-> "inevitable",
      phonetic |-> "/inevitable/",
      definition |-> "Certain to happen; unavoidable",
      translation |-> "inevitable, ineludible",
      examples |-> << "Change is inevitable in any growing organization.",
        "It was inevitable that they would eventually meet.",
        "The economic downturn seemed inevitable after the crisis." >>,
      level |-> "C1" ],
    [ word |-> "contemporary",
      phonetic |-> "/contemporary/",
      definition |-> "Belonging to or occurring in the present time",
      translation |-> "contemporneo, actual",
      examples |-> << "Contemporary art often challenges traditional concepts.",
        "She studies contemporary literature at university.",
        "The building combines classical and contemporary styles." >>,
      level |-> "C1" ],
    [ word |-> "fundamental",
      phonetic |-> "/fundamental/",
      definition |-> "Forming a necessary base or core; of central importance",
      translation |-> "fundamental, bsico",
      examples |-> << "Reading is fundamental to academic success.",
        "There are fundamental differences between the approaches.",
        "Understanding grammar is fundamental to learning languages." >>,
      level |-> "B2" ],
    [ word |-> "significant",
      phonetic |-> "/significant/",
      definition |-> "Sufficiently great or important to be worthy of attention",
      translation |-> "significativo, importante",
      examples |-> << "There was a significant improvement in her performance.",
        "The discovery has significant implications for medicine.",
        "He made significant contributions to physics." >>,
      level |-> "B2" ],
    [ word |-> "elaborate",
      phonetic |-> "/elaborate/",
      definition |-> "Involving many carefully arranged parts or details",
      translation |-> "elaborado, detallado",
      examples |-> << "She prepared an elaborate dinner for the guests.",
        "The plan was too elaborate to implement easily.",
        "Could you elaborate on your previous statement?" >>,
      level |-> "C1" ],
    [ word |-> "authentic",
      phonetic |-> "/authentic/",
      definition |-> "Of undisputed origin; genuine",
      translation |-> "autntico, genuino",
      examples |-> << "The restaurant serves authentic Italian cuisine.",
        "She has an authentic passion for helping others.",
        "The painting was confirmed to be authentic." >>,
      level |-> "B2" ],
    [ word |-> "prominent",
      phonetic |-> "/prominent/",
      definition |-> "Important; famous; standing out so as to be seen easily",
      translation |-> "prominente, destacado",
      examples |-> << "She's a prominent figure in the tech industry.",
        "The building has a prominent position downtown.",
        "Environmental issues played a prominent role." >>,
      level |-> "C1" ],
    [ word |-> "coherent",
      phonetic |-> "/coherent/",
      definition |-> "Logical and consistent; easy to understand",
      translation |-> "coherente, lgico",
      examples |-> << "She presented a coherent argument for the proposal.",
        "The book lacks a coherent structure.",
        "His explanation was clear and coherent." >>,
      level |-> "C1" ],
    [ word |-> "persistent",
      phonetic |-> "/persistent/",
      definition |-> "Continuing firmly despite difficulty or opposition",
      translation |-> "persistente, constante",
      examples |-> << "She was persistent in her efforts to learn.",
        "The persistent rain caused flooding.",
        "His persistent questions got him answers." >>,
      level |-> "B2" ],
    [ word |-> "versatile",
      phonetic |-> "/versatile/",
      definition |-> "Able to adapt to many different functions or activities",
      translation |-> "verstil, polivalente",
      examples |-> << "This versatile tool can be used for many tasks.",
        "She's a versatile actress who can play any role.",
        "The ingredient works in sweet and savory dishes." >>,
      level |-> "B2" ],
    [ word |-> "innovative",
      phonetic |-> "/innovative/",
      definition |-> "Featuring new methods; advanced and original",
      translation |-> "innovador, novedoso",
      examples |-> << "The company has an innovative approach to technology.",
        "She came up with an innovative solution.",
        "This innovative design revolutionized the industry." >>,
      level |-> "B2" ],
    [ word |-> "sophisticated",
      phonetic |-> "/sophisticated/",
      definition |-> "Having great knowledge or experience; complex and refined",
      translation |-> "sofisticado, refinado",
      examples |-> << "The restaurant offers sophisticated cuisine.",
        "She has sophisticated understanding of politics.",
        "The software uses sophisticated algorithms." >>,
      level |-> "C1" ],
    [ word |-> "compelling",
      phonetic |-> "/compelling/",
      definition |-> "Evoking interest, attention, or admiration powerfully",
      translation |-> "convincente, atractivo",
      examples |-> << "She made a compelling argument for change.",
        "The documentary presents compelling evidence.",
        "His story was compelling and moving." >>,
      level |-> "C1" ],
    [ word |-> "distinctive",
      phonetic |-> "/distinctive/",
      definition |-> "Characteristic of one person or thing; distinguishing",
      translation |-> "distintivo, caracterstico",
      examples |-> << "The building has a distinctive architectural style.",
        "She has a distinctive way of speaking.",
        "The wine has a distinctive flavor." >>,
      level |-> "B2" ],
    [ word |-> "exceptional",
      phonetic |-> "/exceptional/",
      definition |-> "Unusually good; outstanding",
      translation |-> "excepcional, extraordinario",
      examples |-> << "She showed exceptional talent in mathematics.",
        "The service at the restaurant was exceptional.",
        "These are exceptional circumstances." >>,
      level |-> "B2" ],
    [ word |-> "magnificent",
      phonetic |-> "/magnificent/",
      definition |-> "Extremely beautiful, elaborate, or impressive",
      translation |-> "magnfico, esplndido",
      examples |-> << "The cathedral has a magnificent interior.",
        "She gave a magnificent performance.",
        "The view from the mountain was magnificent." >>,
      level |-> "B2" ],
    [ word |-> "tremendous",
      phonetic |-> "/tremendous/",
      definition |-> "Very great in amount, scale, or intensity",
      translation |-> "tremendo, enorme",
      examples |-> << "The project required tremendous effort.",
        "She has tremendous respect for her mentor.",
        "There was tremendous excitement in the crowd." >>,
      level |-> "B2" ],
    [ word |-> "extraordinary",
      phonetic |-> "/extraordinary/",
      definition |-> "Very unusual or remarkable",
      translation |-> "extraordinario, excepcional",
      examples |-> << "She has extraordinary musical talent.",
        "The rescue was an extraordinary feat.",
        "These are extraordinary times." >>,
      level |-> "C1" ],
    [ word |-> "remarkable",
      phonetic |-> "/remarkable/",
      definition |-> "Worthy of attention; striking",
      translation |-> "notable, extraordinario",
      examples |-> << "She made remarkable progress in just one year.",
        "The recovery was remarkable.",
        "He has a remarkable memory for details." >>,
      level |-> "B2" ],
    [ word |-> "outstanding",
      phonetic |-> "/outstanding/",
      definition |-> "Exceptionally good; clearly noticeable",
      translation |-> "destacado, sobresaliente",
      examples |-> << "She received an award for outstanding service.",
        "The team's performance was outstanding.",
        "There are still outstanding issues to resolve." >>,
      level |-> "B2" ],
    [ word |-> "phenomenal",
      phonetic |-> "/phenomenal/",
      definition |-> "Very remarkable; extraordinary",
      translation |-> "fenomenal, extraordinario",
      examples |-> << "The athlete's speed is phenomenal.",
        "The company achieved phenomenal growth.",
        "She has a phenomenal ability to learn languages." >>,
      level |-> "C1" ],
    [ word |-> "spectacular",
      phonetic |-> "/spectacular/",
      definition |-> "Beautiful in a dramatic and eye-catching way",
      translation |-> "espectacular, impresionante",
      examples |-> << "The sunset was absolutely spectacular.",
        "The fireworks display was spectacular.",
        "She made a spectacular comeback." >>,
      level |-> "B2" ],
    [ word |-> "incredible",
      phonetic |-> "/incredible/",
      definition |-> "Impossible to believe; extraordinary",
      translation |-> "increble, extraordinario",
      examples |-> << "The view from the top was incredible.",
        "She has incredible patience with children.",
        "The team's comeback was incredible." >>,
      level |-> "B2" ],
    [ word |-> "astonishing",
      phonetic |-> "/astonishing/",
      definition |-> "Extremely surprising or impressive",
      translation |-> "asombroso, sorprendente",
      examples |-> << "The magician's tricks were astonishing.",
        "She made astonishing progress in her recovery.",
        "The results were absolutely astonishing." >>,
      level |-> "C1" ],
    [ word |-> "breathtaking",
      phonetic |-> "/breathtaking/",
      definition |-> "Astonishing or awe-inspiring in quality",
      translation |-> "impresionante, que quita el aliento",
      examples |-> << "The mountain scenery was breathtaking.",
        "She gave a breathtaking performance.",
        "The architecture is absolutely breathtaking." >>,
      level |-> "C1" ]
  >>
\* The word, definition and translation of each entry of fallbackWords,
\* character by character.
fallbackText ==
  <<
    [ word |-> << "s", "e", "r", "e", "n", "d", "i", "p", "i", "t", "y" >>,
      definition |-> << "T", "h", "e", " ", "o", "c", "c", "u", "r", "r", "e", "n", "c", "e", " ", "o", "f", " ", "e", "v", "e", "n", "t", "s", " ", "b", "y", " ", "c", "h", "a", "n", "c", "e", " ", "i", "n", " ", "a", " ", "h", "a", "p", "p", "y", " ", "o", "r", " ", "b", "e", "n", "e", "f", "i", "c", "i", "a", "l", " ", "w", "a", "y" >>,
      translation |-> << "c", "a", "s", "u", "a", "l", "i", "d", "a", "d", " ", "a", "f", "o", "r", "t", "u", "n", "a", "d", "a", ",", " ", "c", "h", "i", "r", "i", "p", "a" >> ],
    [ word |-> << "p", "r", "o", "c", "r", "a", "s", "t", "i", "n", "a", "t", "e" >>,
      definition |-> << "T", "o", " ", "d", "e", "l", "a", "y", " ", "o", "r", " ", "p", "o", "s", "t", "p", "o", "n", "e", " ", "a", "c", "t", "i", "o", "n", ";", " ", "t", "o", " ", "p", "u", "t", " ", "o", "f", "f", " ", "d", "o", "i", "n", "g", " ", "s", "o", "m", "e", "t", "h", "i", "n", "g" >>,
      translation |-> << "p", "r", "o", "c", "r", "a", "s", "t", "i", "n", "a", "r", ",", " ", "p", "o", "s", "t", "e", "r", "g", "a", "r" >> ],
    [ word |-> << "e", "l", "o", "q", "u", "e", "n", "t" >>,
      definition |-> << "F", "l", "u", "e", "n", "t", " ", "a", "n", "d", " ", "p", "e", "r", "s", "u", "a", "s", "i", "v", "e", " ", "i", "n", " ", "s", "p", "e", "a", "k", "i", "n", "g", " ", "o", "r", " ", "w", "r", "i", "t", "i", "n", "g" >>,
      translation |-> << "e", "l", "o", "c", "u", "e", "n", "t", "e", ",", " ", "p", "e", "r", "s", "u", "a", "s", "i", "v", "o" >> ],
    [ word |-> << "r", "e", "s", "i", "l", "i", "e", "n", "t" >>,
      definition |-> << "A", "b", "l", "e", " ", "t", "o", " ", "r", "e", "c", "o", "v", "e", "r", " ", "q", "u", "i", "c", "k", "l", "y", " ", "f", "r", "o", "m", " ", "d", "i", "f", "f", "i", "c", "u", "l", "t", " ", "c", "o", "n", "d", "i", "t", "i", "o", "n", "s" >>,
      translation |-> << "r", "e", "s", "i", "s", "t", "e", "n", "t", "e", ",", " ", "r", "e", "s", "i", "l", "i", "e", "n", "t", "e" >> ],
    [ word |-> << "u", "b", "i", "q", "u", "i", "t", "o", "u", "s" >>,
      definition |-> << "P", "r", "e", "s", "e", "n", "t", ",", " ", "a", "p", "p", "e", "a", "r", "i", "n", "g", ",", " ", "o", "r", " ", "f", "o", "u", "n", "d", " ", "e", "v", "e", "r", "y", "w", "h", "e", "r", "e" >>,
      translation |-> << "o", "m", "n", "i", "p", "r", "e", "s", "e", "n", "t", "e", ",", " ", "u", "b", "i", "c", "u", "o" >> ],
    [ word |-> << "a", "m", "b", "i", "g", "u", "o", "u", "s" >>,
      definition |-> << "O", "p", "e", "n", " ", "t", "o", " ", "m", "o", "r", "e", " ", "t", "h", "a", "n", " ", "o", "n", "e", " ", "i", "n", "t", "e", "r", "p", "r", "e", "t", "a", "t", "i", "o", "n", ";", " ", "n", "o", "t", " ", "h", "a", "v", "i", "n", "g", " ", "o", "n", "e", " ", "o", "b", "v", "i", "o", "u", "s", " ", "m", "e", "a", "n", "i", "n", "g" >>,
      translation |-> << "a", "m", "b", "i", "g", "u", "o", ",", " ", "p", "o", "c", "o", " ", "c", "l", "a", "r", "o" >> ],
    [ word |-> << "e", "p", "h", "e", "m", "e", "r", "a", "l" >>,
      definition |-> << "L", "a", "s", "t", "i", "n", "g", " ", "f", "o", "r", " ", "a", " ", "v", "e", "r", "y", " ", "s", "h", "o", "r", "t", " ", "t", "i", "m", "e" >>,
      translation |-> << "e", "f", "i", "m", "e", "r", "o", ",", " ", "p", "a", "s", "a", "j", "e", "r", "o" >> ],
    [ word |-> << "m", "e", "t", "i", "c", "u", "l", "o", "u", "s" >>,
      definition |-> << "S", "h", "o", "w", "i", "n", "g", " ", "g", "r", "e", "a", "t", " ", "a", "t", "t", "e", "n", "t", "i", "o", "n", " ", "t", "o", " ", "d", "e", "t", "a", "i", "l", ";", " ", "v", "e", "r", "y", " ", "c", "a", "r", "e", "f", "u", "l", " ", "a", "n", "d", " ", "p", "r", "e", "c", "i", "s", "e" >>,
      translation |-> << "m", "e", "t", "i", "c", "u", "l", "o", "s", "o", ",", " ", "m", "i", "n", "u", "c", "i", "o", "s", "o" >> ],
    [ word |-> << "p", "r", "a", "g", "m", "a", "t", "i", "c" >>,
      definition |-> << "D", "e", "a", "l", "i", "n", "g", " ", "w", "i", "t", "h", " ", "t", "h", "i", "n", "g", "s", " ", "s", "e", "n", "s", "i", "b", "l", "y", " ", "a", "n", "d", " ", "r", "e", "a", "l", "i", "s", "t", "i", "c", "a", "l", "l", "y" >>,
      translation |-> << "p", "r", "a", "g", "m", "a", "t", "i", "c", "o", ",", " ", "p", "r", "a", "c", "t", "i", "c", "o" >> ],
    [ word |-> << "v", "e", "r", "s", "a", "t", "i", "l", "e" >>,
      definition |-> << "A", "b", "l", "e", " ", "t", "o", " ", "a", "d", "a", "p", "t", " ", "o", "r", " ", "b", "e", " ", "a", "d", "a", "p", "t", "e", "d", " ", "t", "o", " ", "m", "a", "n", "y", " ", "d", "i", "f", "f", "e", "r", "e", "n", "t", " ", "f", "u", "n", "c", "t", "i", "o", "n", "s", " ", "o", "r", " ", "a", "c", "t", "i", "v", "i", "t", "i", "e", "s" >>,
      translation |-> << "v", "e", "r", "s", "a", "t", "i", "l", ",", " ", "p", "o", "l", "i", "v", "a", "l", "e", "n", "t", "e" >> ],
    [ word |-> << "i", "n", "n", "o", "v", "a", "t", "i", "v", "e" >>,
      definition |-> << "F", "e", "a", "t", "u", "r", "i", "n", "g", " ", "n", "e", "w", " ", "m", "e", "t", "h", "o", "d", "s", ";", " ", "a", "d", "v", "a", "n", "c", "e", "d", " ", "a", "n", "d", " ", "o", "r", "i", "g", "i", "n", "a", "l" >>,
      translation |-> << "i", "n", "n", "o", "v", "a", "d", "o", "r", ",", " ", "n", "o", "v", "e", "d", "o", "s", "o" >> ],
    [ word |-> << "s", "o", "p", "h", "i", "s", "t", "i", "c", "a", "t", "e", "d" >>,
      definition |-> << "H", "a", "v", "i", "n", "g", " ", "g", "r", "e", "a", "t", " ", "k", "n", "o", "w", "l", "e", "d", "g", "e", " ", "o", "r", " ", "e", "x", "p", "e", "r", "i", "e", "n", "c", "e", ";", " ", "c", "o", "m", "p", "l", "e", "x", " ", "a", "n", "d", " ", "r", "e", "f", "i", "n", "e", "d" >>,
      translation |-> << "s", "o", "f", "i", "s", "t", "i", "c", "a", "d", "o", ",", " ", "r", "e", "f", "i", "n", "a", "d", "o" >> ]
  >>

\* The catalog SmartWordBank.words ships with, and the catalogs the build
\* can be given: the shipped one, a 30-entry one, and the empty one.
StripEntry(e) ==
  [ word |-> e.word, phonetic |-> e.phonetic, definition |-> e.definition,
    translation |-> e.translation, examples |-> e.examples, level |-> e.level ]

words30 == words28 \o << StripEntry(fallbackWords[1]), StripEntry(fallbackWords[2]) >>

Catalogs == { words28, words30, << >> }

-----------------------------------------------------------------------------
(* The deterministic selectors *)

\* { ...rec, source } : rec with the field source set, added when absent.
WithSource(rec, src) ==
  [ k \in (DOMAIN rec) \cup {"source"} |-> IF k = "source" THEN src ELSE rec[k] ]

\* Variants of SelectIndex: the reduction modulo the length left out, and
\* a 1-based index.
SelectIndexNoMod(d, n) == DateHash(d)
SelectIndexOneBased(d, n) ==
  IF JsMod(DateHash(d), n) = NaN THEN NaN ELSE JsMod(DateHash(d), n) + 1

\* dateHash % catalog.length
SelectIndex(d, n) == JsMod(DateHash(d), n)

\* catalog[i] of a JavaScript array: undefined for NaN and past the end.
IsUndefinedAt(catalog, i) == i = NaN \/ i >= Len(catalog)

\* Variant of getWordByDate: { date, ...selectedWord }, the entry's own date
\* is kept.
getWordByDateOwnDate(d, catalog) ==
  LET i == SelectIndex(d, Len(catalog))
  IN  IF IsUndefinedAt(catalog, i) THEN [ date |-> d ] ELSE catalog[i + 1]

\* FallbackWordsSystem.getWordByDate: { ...selectedWord, date }.  The spread
\* of undefined has no fields.
getWordByDate(d, catalog) ==
  LET i == SelectIndex(d, Len(catalog))
  IN  IF IsUndefinedAt(catalog, i)
        THEN [ date |-> d ]
        ELSE [ k \in (DOMAIN catalog[i + 1]) \cup {"date"} |->
                 IF k = "date" THEN d ELSE catalog[i + 1][k] ]

\* SmartWordBank.getWordForDate: the indexed entry; the log line reads
\* selectedWord.word and throws when the index reads undefined.
getWordForDate(d, catalog) ==
  LET i == SelectIndex(d, Len(catalog))
  IN  IF IsUndefinedAt(catalog, i) THEN Thrown ELSE catalog[i + 1]

\* The record literal built from a GeneratedWord, a date and a source.
WordRecord(d, g, src) ==
  [ date |-> d, word |-> g.word, phonetic |-> g.phonetic,
    definition |-> g.definition, translation |-> g.translation,
    examples |-> g.examples, level |-> g.level, source |-> src ]

-----------------------------------------------------------------------------
(* JavaScript values and the text of a completion *)

\* JavaScript values other than null: strings, arrays, objects, undefined.
Undefined == [ kind |-> "undefined" ]
Str(s) == [ kind |-> "string", str |-> s ]
Arr(items) == [ kind |-> "array", items |-> items ]
Obj(members) == [ kind |-> "object", members |-> members ]

\* A string kept as the text it holds (see below).
Text(tokens) == [ kind |-> "text", tokens |-> tokens ]

\* A text is a sequence of tokens: code-fence markers, white space, braces,
\* prose, the members of a JSON object, and the JSON literal null.  The
\* markers are ```json and ```.
FenceJson == [ kind |-> "fence-json" ]
Fence == [ kind |-> "fence" ]
Ws == [ kind |-> "ws" ]
LBrace == [ kind |-> "{" ]
RBrace == [ kind |-> "}" ]
NullLiteral == [ kind |-> "null-literal" ]
Prose(s) == [ kind |-> "prose", str |-> s ]
Member(k, v) == [ kind |-> "member", key |-> k, value |-> v ]

\* text.trim(), and the removal of a white-space run at the front.
RECURSIVE TrimStart(_)
TrimStart(text) ==
  IF text # << >> /\ Head(text) = Ws THEN TrimStart(Tail(text)) ELSE text

RECURSIVE TrimEnd(_)
TrimEnd(text) ==
  IF text # << >> /\ text[Len(text)] = Ws
    THEN TrimEnd(SubSeq(text, 1, Len(text) - 1))
    ELSE text

Trim(text) == TrimEnd(TrimStart(text))

\* text.replace(/<marker>\s*/g, "")
RECURSIVE ReplaceAll(_, _)
ReplaceAll(text, marker) ==
  IF text = << >> THEN << >>
  ELSE IF Head(text) = marker THEN ReplaceAll(TrimStart(Tail(text)), marker)
  ELSE << Head(text) >> \o ReplaceAll(Tail(text), marker)

\* text.indexOf(token) and text.lastIndexOf(token): 0-based, -1 when absent.
IndexOf(text, token) ==
  IF \E i \in 1..Len(text) : text[i] = token
    THEN (CHOOSE i \in 1..Len(text) :
            text[i] = token /\ \A j \in 1..(i - 1) : text[j] # token) - 1
    ELSE -1

LastIndexOf(text, token) ==
  IF \E i \in 1..Len(text) : text[i] = token
    THEN (CHOOSE i \in 1..Len(text) :
            text[i] = token /\ \A j \in (i + 1)..Len(text) : text[j] # token) - 1
    ELSE -1

\* text.substring(start, end)
Substring(text, start, end) == SubSeq(text, start + 1, end)

\* JSON.parse(text): null, an object (of a repeated key the last member
\* counts), or a SyntaxError.
IsMember(token) == token.kind = "member"

JSONParse(text) ==
  LET t == Trim(text)
      inner == SubSeq(t, 2, Len(t) - 1)
      members == SelectSeq(inner, IsMember)
      keys == { members[i].key : i \in 1..Len(members) }
      lastOf(k) == CHOOSE i \in 1..Len(members) :
                     /\ members[i].key = k
                     /\ \A j \in (i + 1)..Len(members) : members[j].key # k
  IN  IF t = << NullLiteral >> THEN Null
      ELSE IF /\ Len(t) >= 2
              /\ t[1] = LBrace
              /\ t[Len(t)] = RBrace
              /\ \A i \in 1..Len(inner) : inner[i].kind \in { "member", "ws" }
        THEN Obj([ k \in keys |-> members[lastOf(k)].value ])
        ELSE Thrown

\* parsed.key of an object: undefined when the key is absent.
Get(parsed, key) ==
  IF key \in DOMAIN parsed.members THEN parsed.members[key] ELSE Undefined

\* Variant of Truthy: every string counts, the empty one too.
TruthyAnyString(v) == v.kind \in { "string", "text", "array", "object" }

\* The truth value of a JavaScript value in a condition.
Truthy(v) ==
  \/ v.kind = "string" /\ v.str # ""
  \/ v.kind = "text" /\ v.tokens # << >>
  \/ v.kind \in { "array", "object" }

\* a || b
OrElse(a, b) == IF Truthy(a) THEN a ELSE b

\* Variant of CatchReturnsNull: the exception leaves the function.
CatchRethrows(v) == v

\* try { ... } catch (error) { return null }
CatchReturnsNull(v) == IF v = Thrown THEN Null ELSE v

-----------------------------------------------------------------------------
(* HuggingFaceWordGenerator *)

\* Variant of CleanText: the text is parsed without taking the slice
\* between the braces.
CleanTextNoSlice(text) == ReplaceAll(ReplaceAll(Trim(text), FenceJson), Fence)

\* cleanText of parseJSONResponse when it is handed to JSON.parse.
CleanText(text) ==
  LET stripped == ReplaceAll(ReplaceAll(Trim(text), FenceJson), Fence)
      jsonStart == IndexOf(stripped, LBrace)
      jsonEnd == LastIndexOf(stripped, RBrace)
  IN  IF jsonStart # -1 /\ jsonEnd # -1 /\ jsonEnd > jsonStart
        THEN Substring(stripped, jsonStart, jsonEnd + 1)
        ELSE stripped

\* Variant of HasRequiredFields: one example is enough.
HasRequiredFieldsOneExample(parsed) ==
  /\ Truthy(Get(parsed, "word"))
  /\ Truthy(Get(parsed, "definition"))
  /\ Truthy(Get(parsed, "translation"))
  /\ Truthy(Get(parsed, "examples"))
  /\ Get(parsed, "examples").kind = "array"
  /\ Len(Get(parsed, "examples").items) >= 1

\* The validation of parseJSONResponse.
HasRequiredFields(parsed) ==
  /\ Truthy(Get(parsed, "word"))
  /\ Truthy(Get(parsed, "definition"))
  /\ Truthy(Get(parsed, "translation"))
  /\ Truthy(Get(parsed, "examples"))
  /\ Get(parsed, "examples").kind = "array"
  /\ Len(Get(parsed, "examples").items) >= 2

\* parsed.examples.slice(0, 3)
Slice03(items) == SubSeq(items, 1, IF Len(items) < 3 THEN Len(items) ELSE 3)

\* `/${parsed.word}/`
SynthesizedPhonetic(word) == Str("/" \o word.str \o "/")

\* The try block of parseJSONResponse: the record, null, or Thrown when
\* JSON.parse or a property read (of null) throws.
ParseAndValidate(text) ==
  LET parsed == JSONParse(CleanText(text))
  IN  IF parsed = Thrown \/ parsed = Null THEN Thrown
      ELSE IF HasRequiredFields(parsed)
        THEN [ word |-> Get(parsed, "word"),
               phonetic |-> OrElse(Get(parsed, "phonetic"),
                                   SynthesizedPhonetic(Get(parsed, "word"))),
               definition |-> Get(parsed, "definition"),
               translation |-> Get(parsed, "translation"),
               examples |-> Arr(Slice03(Get(parsed, "examples").items)),
               level |-> OrElse(Get(parsed, "level"), Str("B2")) ]
        ELSE Null

parseJSONResponse(text) == CatchReturnsNull(ParseAndValidate(text))

\* data[0].toLowerCase(), for the seed words of the model.
ToLowerCase(s) == IF s = "Lucid" THEN "lucid" ELSE s

\* array[0]
First(array) == IF array.items = << >> THEN Undefined ELSE array.items[1]

\* getRandomWord, given how `fetch` settled: Thrown (it rejected) or a
\* response with ok, status and what response.json() resolves to (Thrown
\* when the body is not JSON).
getRandomWord(seed) ==
  CatchReturnsNull(
    IF seed = Thrown THEN Thrown
    ELSE IF ~seed.ok THEN Null
    ELSE IF seed.json = Thrown THEN Thrown
    ELSE IF /\ seed.json.kind = "array"
            /\ Len(seed.json.items) > 0
            /\ First(seed.json).kind = "string"
      THEN Str(ToLowerCase(First(seed.json).str))
      ELSE Null)

\* Variant of SeedIsUsable: the seed is not tested.
SeedIsUsableUntested(randomWord) == TRUE

\* The test `!randomWord` of generateWord, negated.
SeedIsUsable(randomWord) == Truthy(randomWord)

\* responseContent of generateWord, undefined when the completion object
\* has no first choice with a message.
ResponseContent(chat) ==
  IF /\ Truthy(chat)
     /\ Truthy(Get(chat, "choices"))
     /\ Truthy(First(Get(chat, "choices")))
     /\ Truthy(Get(First(Get(chat, "choices")), "message"))
    THEN Get(Get(First(Get(chat, "choices")), "message"), "content")
    ELSE Undefined

\* The try block of generateWord, given how hf.chatCompletion settled:
\* Thrown (it rejected) or the completion object.
FromCompletion(chat) ==
  IF chat = Thrown THEN Thrown
  ELSE IF Truthy(ResponseContent(chat))
    THEN parseJSONResponse(ResponseContent(chat).tokens)
    ELSE Null

\* HuggingFaceWordGenerator.generateWord: Thrown stands for an exception
\* that leaves it.
generateWord(available, seed, chat) ==
  IF ~available THEN Null
  ELSE LET randomWord == getRandomWord(seed)
       IN  IF randomWord = Thrown THEN Thrown
           ELSE IF ~SeedIsUsable(randomWord) THEN Null
           ELSE CatchReturnsNull(FromCompletion(chat))

\* Whether that invocation hands a completion text to parseJSONResponse.
ReachesParse(available, seed, chat) ==
  /\ available
  /\ getRandomWord(seed) # Thrown
  /\ SeedIsUsable(getRandomWord(seed))
  /\ chat # Thrown
  /\ Truthy(ResponseContent(chat))

\* A GeneratedWord whose fields are strings and an array of strings, with
\* the strings and the array written as TLA+ strings and a sequence.
GeneratedWordOf(g) ==
  IF g = Null \/ g = Thrown THEN g
  ELSE [ word |-> g.word.str, phonetic |-> g.phonetic.str,
         definition |-> g.definition.str, translation |-> g.translation.str,
         examples |-> [ i \in 1..Len(g.examples.items) |-> g.examples.items[i].str ],
         level |-> g.level.str ]

-----------------------------------------------------------------------------
(* Responses of the random-word source and of the inference provider *)

SeedResponse(ok, status, json) == [ ok |-> ok, status |-> status, json |-> json ]

SeedLucid == SeedResponse(TRUE, 200, Arr(<< Str("Lucid") >>))

\* A payload whose first element is a string and whose second is not.
SeedKeenAndObject ==
  SeedResponse(TRUE, 200, Arr(<< Str("keen"), Obj([ id |-> Str("7") ]) >>))

SeedResponses ==
  { Thrown,
    SeedKeenAndObject,
    SeedResponse(FALSE, 503, Thrown),
    SeedResponse(TRUE, 200, Thrown),
    SeedLucid,
    SeedResponse(TRUE, 200, Arr(<< Str("keen"), Str("apt") >>)),
    SeedResponse(TRUE, 200, Arr(<< Str("") >>)),
    SeedResponse(TRUE, 200, Arr(<< >>)),
    SeedResponse(TRUE, 200, Arr(<< Null >>)),
    SeedResponse(TRUE, 200, Str("lucid")),
    SeedResponse(TRUE, 200, Null),
    SeedResponse(TRUE, 200, Obj([ error |-> Str("rate limited") ])) }

\* The completion object whose first choice carries this message.
ChatWithMessage(message) ==
  Obj([ choices |-> Arr(<< Obj([ message |-> message ]) >>) ])

ChatWithContent(tokens) ==
  ChatWithMessage(Obj([ role |-> Str("assistant"), content |-> Text(tokens) ]))

\* JSON object texts, bare, in a code fence, and inside prose.
Bare(members) == << LBrace >> \o members \o << RBrace >>
Fenced(json) == << FenceJson, Ws >> \o json \o << Ws, Fence >>
InProse(json) ==
  << Prose("Here is the word you asked for:"), Ws >> \o json
    \o << Ws, Prose("Let me know if you need another one.") >>

KeenMembers ==
  << Member("word", Str("keen")), Member("phonetic", Str("/keen/")),
     Member("definition", Str("Having or showing eagerness or enthusiasm")),
     Member("translation", Str("entusiasta, agudo")),
     Member("examples", Arr(<< Str("He is a keen gardener."),
                               Str("She has a keen eye for detail."),
                               Str("They are keen to start."),
                               Str("A keen wind blew.") >>)),
     Member("level", Str("B2")) >>

AptMembers ==
  << Member("word", Str("apt")),
     Member("definition", Str("Appropriate or suitable in the circumstances")),
     Member("translation", Str("apto, apropiado")),
     Member("examples", Arr(<< Str("That was an apt description."),
                               Str("An apt remark at the right time.") >>)) >>

\* KeenMembers without its definition, and with an empty one.
WithoutKey(members, key) ==
  SelectSeq(members, LAMBDA m : m.key # key)

WithValue(members, key, value) ==
  [ i \in 1..Len(members) |->
      IF members[i].key = key THEN Member(key, value) ELSE members[i] ]

\* What the inference provider answers in the pipeline: two complete
\* objects, one without definition, one with an empty definition, and
\* prose without any object.
PipelineChats ==
  { ChatWithContent(Fenced(Bare(KeenMembers))),
    ChatWithContent(Bare(AptMembers)),
    ChatWithContent(Bare(WithoutKey(KeenMembers, "definition"))),
    ChatWithContent(Fenced(Bare(WithValue(KeenMembers, "definition", Str(""))))),
    ChatWithContent(<< Prose("I cannot help with that.") >>),
    Thrown }

PipelineSeeds == { SeedLucid, Thrown }
-----------------------------------------------------------------------------
(* generateWordWithSmartBank *)

\* Values HuggingFaceWordGenerator.generateWord hands back in the pipeline:
\* validated records with words of 4 and 3 characters.
AiKeen ==
  [ word |-> "keen", phonetic |-> "/keen/",
    definition |-> "Having or showing eagerness or enthusiasm",
    translation |-> "entusiasta, agudo",
    examples |-> << "He is a keen gardener.",
                    "She has a keen eye for detail.",
                    "They are keen to start." >>,
    level |-> "B2" ]

AiApt ==
  [ word |-> "apt", phonetic |-> "/apt/",
    definition |-> "Appropriate or suitable in the circumstances",
    translation |-> "apto, apropiado",
    examples |-> << "That was an apt description.",
                    "An apt remark at the right time." >>,
    level |-> "B2" ]

GeneratedWords == { AiKeen, AiApt }

\* Outcomes of `await HuggingFaceWordGenerator.generateWord(date)`, which
\* does not throw.
AiOutcomes == GeneratedWords \cup { Null }

\* What one `await HuggingFaceWordGenerator.generateWord(date)` of the
\* pipeline comes to: the value it resolves to, and whether a completion
\* text reached parseJSONResponse.
PipelineInvocations ==
  { [ aiWord |-> GeneratedWordOf(generateWord(TRUE, seed, chat)), ai |-> 1,
      parse |-> IF ReachesParse(TRUE, seed, chat) THEN 1 ELSE 0 ] :
      seed \in PipelineSeeds, chat \in PipelineChats }

\* The generator is not available: generateWord is not called.
NotInvoked == [ aiWord |-> Null, ai |-> 0, parse |-> 0 ]

\* Variant of AcceptsAiWord: length >= 3.
AcceptsAiWordAtLeast3(aiWord) ==
  /\ aiWord \notin { Null, Thrown }
  /\ aiWord.word # ""
  /\ Len(aiWord.word) >= 3

\* aiWord && aiWord.word && aiWord.word.length > 3
AcceptsAiWord(aiWord) ==
  /\ aiWord \notin { Null, Thrown }
  /\ aiWord.word # ""
  /\ Len(aiWord.word) > 3

\* The value generateWordWithSmartBank resolves to, or Thrown when the
\* Smart Word Bank selection throws.  aiWord is read only when available.
generateWordWithSmartBank(d, available, aiWord, catalog) ==
  IF available /\ AcceptsAiWord(aiWord)
    THEN WordRecord(d, aiWord, "ai")
    ELSE LET smartWord == getWordForDate(d, catalog)
         IN  IF smartWord = Thrown THEN Thrown
             ELSE WordRecord(d, smartWord, "curated")

\* newWordData of GET: the generated record, or the old fallback system's
\* record tagged generation_error when the generation threw.
NewWordData(d, available, aiWord, catalog) ==
  LET generated == generateWordWithSmartBank(d, available, aiWord, catalog)
  IN  IF generated = Thrown
        THEN WithSource(getWordByDate(d, fallbackWords), "generation_error")
        ELSE generated

-----------------------------------------------------------------------------
(* The handler's catch block *)

hardcodedWord(d) ==
  [ date |-> d, word |-> "resilient", phonetic |-> "/resilient/",
    definition |-> "Able to recover quickly from difficult conditions",
    translation |-> "resistente, resiliente",
    examples |-> << "We need to be resilient in difficult times.",
                    "The app is resilient and works even offline.",
                    "Your learning journey requires resilient effort." >>,
    level |-> "B2", source |-> "hardcoded" ]

\* Variant of CatchBody: the literal record keeps the tag emergency.
CatchBodyLiteralEmergency(d, catalog) ==
  LET emergencyWord == getWordForDate(d, catalog)
  IN  IF emergencyWord = Thrown
        THEN WithSource(hardcodedWord(d), "emergency")
        ELSE WordRecord(d, emergencyWord, "emergency")

\* The body the catch block of GET answers with.
CatchBody(d, catalog) ==
  LET emergencyWord == getWordForDate(d, catalog)
  IN  IF emergencyWord = Thrown
        THEN hardcodedWord(d)
        ELSE WordRecord(d, emergencyWord, "emergency")

-----------------------------------------------------------------------------
(* The daily_words table *)

\* CHECK (level IN (...)) and the source constraint after the ALTER TABLE.
LevelCheck == { "A1", "A2", "B1", "B2", "C1", "C2" }

SourceCheck ==
  { "ai", "curated", "smart_generated", "manual", "fallback",
    "database_unavailable", "emergency", "hardcoded", "ai_fallback",
    "generation_error" }

\* A value of the column type DATE: a day of the calendar, year 1 or later.
IsLeapYear(y) == y % 4 = 0 /\ (y % 100 # 0 \/ y % 400 = 0)

DaysInMonth(y, m) ==
  IF m = 2 THEN (IF IsLeapYear(y) THEN 29 ELSE 28)
  ELSE IF m \in { 4, 6, 9, 11 } THEN 30
  ELSE 31

IsCalendarDate(d) ==
  /\ MatchesDateFormat(d)
  /\ ParseInt(d[1]) >= 1
  /\ ParseInt(d[2]) \in 1..12
  /\ ParseInt(d[3]) \in 1..DaysInMonth(ParseInt(d[1]), ParseInt(d[2]))

SatisfiesChecks(row) ==
  /\ IsCalendarDate(row.date)
  /\ row.level \in LevelCheck
  /\ row.source \in SourceCheck

\* The table is the set of its rows.  The rows of a date, and the row that
\* .eq("date", date).single() yields: the one row of the date, none (an
\* error) when there is no row or more than one.
RowsOf(table, d) == { row \in table : row.date = d }

RowOf(table, d) ==
  IF Cardinality(RowsOf(table, d)) = 1
    THEN CHOOSE row \in table : row.date = d
    ELSE Null

\* Variant of Upsert: the row is added and the row of that date is kept.
UpsertAppends(table, row) == table \cup { row }

\* The table after upsert(row, onConflict: "date"): the row of that date is
\* replaced, every other row is kept.
Upsert(table, row) == { old \in table : old.date # row.date } \cup { row }

-----------------------------------------------------------------------------
(* The steps of GET *)

\* Variant of IsConnected: a throw of the check leaves the store connected.
IsConnectedUnlessFalse(result) == result # "false"

\* isConnected after the try/catch around checkConnection.
IsConnected(result) == result = "true"

\* Variant of DisconnectedBody: the catalog entry's own tag is not replaced.
DisconnectedBodyOwnTag(d) == getWordByDate(d, fallbackWords)

\* The response of the branch taken when the store is not connected.
DisconnectedBody(d) ==
  WithSource(getWordByDate(d, fallbackWords), "database_unavailable")

\* Variant of ExistingWord: the row the query returned is dropped.
ExistingWordDropped(result, table, d) == Null

\* existingWord after the try/catch around getWordByDate: the row of the
\* date when the query returned data, null on an error or a throw.
ExistingWord(result, table, d) ==
  IF result = "data" THEN RowOf(table, d) ELSE Null

\* savedWord after the try/catch around saveWord, for a row the table
\* accepted (stored) or not.
SavedWord(stored, row) == IF stored THEN row ELSE Null

\* Variant of WordToReturn: the saved row only.
WordToReturnSavedOnly(savedWord, candidate) == savedWord

\* savedWord || newWordData
WordToReturn(savedWord, candidate) ==
  IF savedWord # Null THEN savedWord ELSE candidate

-----------------------------------------------------------------------------
(* Requests *)

\* "2025-6-15"
BadDate == << Digits(2025, 4), Digits(6, 1), Digits(15, 2) >>

ValidDates == { Date(2025, 6, 15) }

DateInputs == ValidDates \cup { BadDate }

\* The table after the setup script ran on a date of the model: its sample
\* row for CURRENT_DATE.
SampleRows ==
  { [ date |-> d, word |-> "resilient", phonetic |-> "/resilient/",
        definition |-> "Able to recover quickly from difficult conditions",
        translation |-> "resistente, resiliente",
        examples |-> << "Children are remarkably resilient creatures.",
                        "The city proved resilient after the natural disaster.",
                        "You need to be resilient to succeed in business." >>,
        level |-> "B2", source |-> "manual" ] : d \in ValidDates }

EmptyTable == { }

\* The external calls of one request: how many of each, how many completion
\* texts reached parseJSONResponse, how the connectivity check settled, how
\* the lookup settled ("" when not made; kept until the next step of the
\* request has run), and whether the store answered the lookup with a row.
NoCalls ==
  [ check |-> 0, lookup |-> 0, ai |-> 0, parse |-> 0, save |-> 0,
    checkResult |-> "", lookupResult |-> "", lookupFound |-> FALSE ]

\* Inputs of the selectors taken alone: year, month and day as numbers.
SelYears == { 0, 2024, 2025 }
SelMonths == { 0, 1, 2, 5, 6, 12 }
SelDays == { 0, 1, 5, 15, 30 }
SelDates == SelYears \X SelMonths \X SelDays
SelCatalogs == { fallbackWords, words28, words30, << >> }

VARIABLES
  store,        \* daily_words: the set of its rows
  words,        \* SmartWordBank.words
  hf,           \* HuggingFaceWordGenerator.isAvailable()
  pc,           \* per client: the await the request is suspended at
  date,         \* per client: the date parameter
  aiWord,       \* per client: what generateWord returned
  newWordData,  \* per client: the candidate
  calls,        \* per client: external calls made by the request so far
  last,         \* the request completed last and its response
  sel,          \* a selector taken alone: its inputs and results
  gen,          \* generateWord taken alone: one invocation
  parser,       \* parseJSONResponse taken alone: a text and its result
  gw,           \* WordsDatabase taken alone: one operation
  hist,         \* the history endpoint taken alone: one request
  srch,         \* the search endpoint taken alone: one request
  ui            \* the browser client: selected date, fetches in flight

\* The variables of the pipeline, and those of the parts taken alone.
pipeline == << store, words, hf, pc, date, aiWord, newWordData, calls, last >>
units == << sel, gen, parser, gw, hist, srch, ui >>

vars == << pipeline, units >>

\* No request completed yet.  save is how saveWord settled ("" when not
\* called), caught whether the catch block of GET ran.
NoRequest ==
  [ date |-> << >>, status |-> 0, body |-> Null, save |-> "",
    existingWord |-> Null, aiWord |-> Null, newWordData |-> Null,
    savedWord |-> Null, caught |-> FALSE, calls |-> NoCalls ]

NoSelection == [ a |-> << >>, b |-> << >>, catalog |-> << >>, by |-> "" ]

\* The parts taken alone are not run.
NoGeneration == [ pc |-> "" ]
NoParse == [ by |-> "" ]
NoOperation == [ pc |-> "" ]
NoHistory == [ pc |-> "" ]
NoSearch == [ pc |-> "" ]
NoBrowser == [ pc |-> "" ]

IdleUnits ==
  /\ gen = NoGeneration
  /\ parser = NoParse
  /\ gw = NoOperation
  /\ hist = NoHistory
  /\ srch = NoSearch
  /\ ui = NoBrowser

IdleClients ==
  /\ pc = [ c \in Clients |-> "idle" ]
  /\ date = [ c \in Clients |-> << >> ]
  /\ aiWord = [ c \in Clients |-> Null ]
  /\ newWordData = [ c \in Clients |-> Null ]
  /\ calls = [ c \in Clients |-> NoCalls ]
  /\ last = NoRequest

Init ==
  /\ store \in { EmptyTable, SampleRows }
  /\ words \in Catalogs
  /\ hf \in BOOLEAN
  /\ IdleClients
  /\ sel = NoSelection
  /\ IdleUnits

\* The request of client c ends with this response; the client is idle again.
Finish(c, fields) ==
  /\ last' = [ k \in DOMAIN NoRequest |->
                 IF k \in DOMAIN fields THEN fields[k]
                 ELSE IF k = "date" THEN date[c]
                 ELSE NoRequest[k] ]
  /\ pc' = [ pc EXCEPT ![c] = "idle" ]
  /\ date' = [ date EXCEPT ![c] = << >> ]
  /\ aiWord' = [ aiWord EXCEPT ![c] = Null ]
  /\ newWordData' = [ newWordData EXCEPT ![c] = Null ]
  /\ calls' = [ calls EXCEPT ![c] = NoCalls ]

\* A request whose date fails the format test: 400, nothing else happens.
RejectDate(c, d) ==
  /\ pc[c] = "idle"
  /\ ~MatchesDateFormat(d)
  /\ last' = [ NoRequest EXCEPT !.date = d, !.status = 400,
                                !.body = [ error |-> "Invalid date format. Use YYYY-MM-DD" ] ]
  /\ UNCHANGED << store, words, hf, pc, date, aiWord, newWordData, calls, units >>

\* A request with a well-formed date: the handler runs up to
\* `await WordsDatabase.checkConnection()`.
Request(c, d) ==
  /\ pc[c] = "idle"
  /\ MatchesDateFormat(d)
  /\ pc' = [ pc EXCEPT ![c] = "checkConnection" ]
  /\ date' = [ date EXCEPT ![c] = d ]
  /\ calls' = [ calls EXCEPT ![c] = NoCalls ]
  /\ UNCHANGED << store, words, hf, aiWord, newWordData, last, units >>

\* checkConnection settles: true, false or a throw (caught: false).  Not
\* connected: the old fallback system's record, tagged database_unavailable.
CheckConnection(c) ==
  /\ pc[c] = "checkConnection"
  /\ \E result \in { "true", "false", "throw" } :
       LET made == [ calls[c] EXCEPT !.check = @ + 1, !.checkResult = result ]
       IN  IF ~IsConnected(result)
             THEN Finish(c, [ status |-> 200, body |-> DisconnectedBody(date[c]),
                              calls |-> made ])
             ELSE /\ pc' = [ pc EXCEPT ![c] = "getWordByDate" ]
                  /\ calls' = [ calls EXCEPT ![c] = made ]
                  /\ UNCHANGED << date, aiWord, newWordData, last >>
  /\ UNCHANGED << store, words, hf, units >>

\* getWordByDate settles: the row of the date (or none), an error, or a throw
\* (both: no row).  A row found is the response; the response is built from
\* what the store client returned outside the inner try blocks, so an
\* exception there (jsonThrows) reaches the catch block of GET.
GetWordByDate(c) ==
  /\ pc[c] = "getWordByDate"
  /\ \E result \in { "data", "error", "throw" }, jsonThrows \in BOOLEAN :
       LET existingWord == ExistingWord(result, store, date[c])
           made == [ calls[c] EXCEPT
                      !.lookup = @ + 1, !.lookupResult = result,
                      !.lookupFound = result = "data" /\ RowsOf(store, date[c]) # { } ]
       IN  IF existingWord # Null
             THEN Finish(c, [ status |-> 200,
                              body |-> IF jsonThrows THEN CatchBody(date[c], words)
                                       ELSE existingWord,
                              existingWord |-> existingWord,
                              caught |-> jsonThrows, calls |-> made ])
             ELSE /\ ~jsonThrows
                  /\ pc' = [ pc EXCEPT ![c] = "generateWord" ]
                  /\ calls' = [ calls EXCEPT ![c] = made ]
                  /\ UNCHANGED << date, aiWord, newWordData, last >>
  /\ UNCHANGED << store, words, hf, units >>

\* generateWordWithSmartBank runs to its end; generateWord is awaited only
\* when the generator is available, and what it resolves to follows from
\* what the random-word source and the inference provider answer (or the
\* await rejects).  The handler is then suspended at
\* `await WordsDatabase.saveWord(newWordData)`.
GenerateWord(c) ==
  /\ pc[c] = "generateWord"
  /\ \E invocation \in IF hf THEN PipelineInvocations ELSE { NotInvoked } :
       /\ aiWord' = [ aiWord EXCEPT ![c] = invocation.aiWord ]
       /\ newWordData' = [ newWordData EXCEPT
                             ![c] = NewWordData(date[c], hf, invocation.aiWord, words) ]
       /\ calls' = [ calls EXCEPT ![c].ai = @ + invocation.ai,
                                   ![c].parse = @ + invocation.parse,
                                   ![c].lookupResult = "" ]
  /\ pc' = [ pc EXCEPT ![c] = "saveWord" ]
  /\ UNCHANGED << store, words, hf, date, last, units >>

\* Variant of SaveWord: a save that did not store the row sends the request
\* back to the generation.
SaveWordRetries(c) ==
  /\ pc[c] = "saveWord"
  /\ \E result \in { "data", "error", "throw" } :
       LET stored == result = "data" /\ SatisfiesChecks(newWordData[c])
       IN  /\ store' = IF stored THEN Upsert(store, newWordData[c]) ELSE store
           /\ IF stored
                THEN Finish(c, [ status |-> 200, body |-> newWordData[c],
                                 save |-> result, aiWord |-> aiWord[c],
                                 newWordData |-> newWordData[c],
                                 savedWord |-> newWordData[c],
                                 calls |-> [ calls[c] EXCEPT !.save = @ + 1 ] ])
                ELSE /\ pc' = [ pc EXCEPT ![c] = "generateWord" ]
                     /\ calls' = [ calls EXCEPT ![c].save = 1 ]
                     /\ UNCHANGED << date, aiWord, newWordData, last >>
  /\ UNCHANGED << words, hf, units >>

\* saveWord settles: the upserted row, an error (null) or a throw (caught).
\* The response is savedWord || newWordData, and a saved row is again data
\* of the store client (jsonThrows).
SaveWord(c) ==
  /\ pc[c] = "saveWord"
  /\ \E result \in { "data", "error", "throw" }, jsonThrows \in BOOLEAN :
       LET stored == result = "data" /\ SatisfiesChecks(newWordData[c])
           savedWord == SavedWord(stored, newWordData[c])
       IN  /\ jsonThrows => savedWord # Null
           /\ store' = IF stored THEN Upsert(store, newWordData[c]) ELSE store
           /\ Finish(c, [ status |-> 200,
                          body |-> IF jsonThrows THEN CatchBody(date[c], words)
                                   ELSE WordToReturn(savedWord, newWordData[c]),
                          save |-> result,
                          aiWord |-> aiWord[c],
                          newWordData |-> newWordData[c],
                          savedWord |-> savedWord,
                          caught |-> jsonThrows,
                          calls |-> [ calls[c] EXCEPT !.save = @ + 1 ] ])
  /\ UNCHANGED << words, hf, units >>

Next ==
  \E c \in Clients :
    \/ \E d \in DateInputs : RejectDate(c, d)
    \/ \E d \in DateInputs : Request(c, d)
    \/ CheckConnection(c)
    \/ GetWordByDate(c)
    \/ GenerateWord(c)
    \/ SaveWord(c)

Spec == Init /\ [][Next]_vars

\* The clients whose external calls all settle; the calls of the others may
\* never complete.
Responsive == { c \in Clients : c = 1 }

\* The awaits of GET, and idle for no request in progress.
Awaits == { "idle", "checkConnection", "getWordByDate", "generateWord", "saveWord" }

\* The await that the request of client c is suspended at settles, and the
\* handler runs on to its next await or to its return.
Settles(c) ==
  /\ pc[c] # "idle"
  /\ \E at \in Awaits \ { pc[c] } : pc' = [ pc EXCEPT ![c] = at ]

\* The pipeline on an empty table with the shipped Smart Word Bank, with or
\* without the generator.
LiveInit ==
  /\ store = EmptyTable
  /\ words = words28
  /\ hf \in BOOLEAN
  /\ IdleClients
  /\ sel = NoSelection
  /\ IdleUnits

\* Every await of a responsive client's request settles.
LiveSpec == LiveInit /\ [][Next]_vars /\ \A c \in Responsive : WF_pc(Settles(c))

-----------------------------------------------------------------------------
(* The selectors taken alone *)

SelInit ==
  /\ store = EmptyTable
  /\ words = words28
  /\ hf = FALSE
  /\ IdleClients
  /\ \E a \in SelDates, b \in SelDates, catalog \in SelCatalogs :
       sel = [ a |-> a, b |-> b, catalog |-> catalog, by |-> "" ]
  /\ IdleUnits

\* FallbackWordsSystem.getWordByDate applied to both dates.
SelectFallback ==
  /\ sel.by = ""
  /\ sel' = [ by |-> "getWordByDate", a |-> sel.a, b |-> sel.b, catalog |-> sel.catalog,
              outA |-> getWordByDate(Date(sel.a[1], sel.a[2], sel.a[3]), sel.catalog),
              outB |-> getWordByDate(Date(sel.b[1], sel.b[2], sel.b[3]), sel.catalog) ]
  /\ UNCHANGED << pipeline, gen, parser, gw, hist, srch, ui >>

\* SmartWordBank.getWordForDate applied to both dates.
SelectSmart ==
  /\ sel.by = ""
  /\ sel' = [ by |-> "getWordForDate", a |-> sel.a, b |-> sel.b, catalog |-> sel.catalog,
              outA |-> getWordForDate(Date(sel.a[1], sel.a[2], sel.a[3]), sel.catalog),
              outB |-> getWordForDate(Date(sel.b[1], sel.b[2], sel.b[3]), sel.catalog) ]
  /\ UNCHANGED << pipeline, gen, parser, gw, hist, srch, ui >>

SelNext == SelectFallback \/ SelectSmart

SelSpec == SelInit /\ [][SelNext]_vars

\* The pipeline is not run while a part is taken alone.
PipelineAtRest ==
  /\ store = EmptyTable
  /\ words = words28
  /\ hf = FALSE
  /\ IdleClients

-----------------------------------------------------------------------------
(* generateWord taken alone *)

\* Completions with a complete object: in a code fence, bare, inside prose.
CompleteChats ==
  { ChatWithContent(Fenced(Bare(KeenMembers))),
    ChatWithContent(Bare(AptMembers)),
    ChatWithContent(InProse(Bare(KeenMembers))) }

\* Completions without a usable object: a transport error, no completion,
\* no choices, no message, no content, empty content, prose only, the
\* literal null, an object that does not end, an object without definition,
\* and one with a single example.
FailingChats ==
  { Thrown,
    Null,
    Obj([ model |-> Str("meta-llama/Llama-3.3-70B-Instruct") ]),
    Obj([ choices |-> Arr(<< >>) ]),
    Obj([ choices |-> Arr(<< Obj([ finish_reason |-> Str("length") ]) >>) ]),
    ChatWithMessage(Obj([ role |-> Str("assistant") ])),
    ChatWithMessage(Obj([ role |-> Str("assistant"), content |-> Null ])),
    ChatWithContent(<< >>),
    ChatWithContent(<< Prose("I cannot help with that.") >>),
    ChatWithContent(<< NullLiteral >>),
    ChatWithContent(<< LBrace >> \o KeenMembers),
    ChatWithContent(Bare(WithoutKey(KeenMembers, "definition"))),
    ChatWithContent(Bare(WithValue(AptMembers, "examples",
                                   Arr(<< Str("That was an apt description.") >>)))) }

ChatResponses == CompleteChats \cup FailingChats

GenInit ==
  /\ PipelineAtRest
  /\ sel = NoSelection
  /\ parser = NoParse
  /\ gw = NoOperation
  /\ hist = NoHistory
  /\ srch = NoSearch
  /\ ui = NoBrowser
  /\ \E available \in BOOLEAN, seed \in SeedResponses, chat \in ChatResponses :
       gen = [ pc |-> "idle", available |-> available, seed |-> seed, chat |-> chat,
               seedCalls |-> 0, inferenceCalls |-> 0,
               randomWord |-> Undefined, result |-> Undefined ]

\* generateWord is called: null without a client, else getRandomWord
\* issues its fetch.
GenInvoke ==
  /\ gen.pc = "idle"
  /\ gen' = IF ~gen.available
              THEN [ gen EXCEPT !.pc = "done", !.result = Null ]
              ELSE [ gen EXCEPT !.pc = "fetch", !.seedCalls = @ + 1 ]
  /\ UNCHANGED << pipeline, sel, parser, gw, hist, srch, ui >>

\* The fetch settles and getRandomWord returns; with a seed, the prompt is
\* built and hf.chatCompletion is called.
GenSeedSettles ==
  /\ gen.pc = "fetch"
  /\ LET randomWord == getRandomWord(gen.seed)
     IN  gen' = IF randomWord = Thrown
                  THEN [ gen EXCEPT !.pc = "done", !.result = Thrown ]
                ELSE IF ~SeedIsUsable(randomWord)
                  THEN [ gen EXCEPT !.pc = "done", !.randomWord = randomWord,
                                    !.result = Null ]
                ELSE [ gen EXCEPT !.pc = "chatCompletion", !.randomWord = randomWord,
                                  !.inferenceCalls = @ + 1 ]
  /\ UNCHANGED << pipeline, sel, parser, gw, hist, srch, ui >>

\* hf.chatCompletion settles; the try block and its catch run.
GenChatSettles ==
  /\ gen.pc = "chatCompletion"
  /\ gen' = [ gen EXCEPT !.pc = "done",
                         !.result = CatchReturnsNull(FromCompletion(gen.chat)) ]
  /\ UNCHANGED << pipeline, sel, parser, gw, hist, srch, ui >>

GenNext == GenInvoke \/ GenSeedSettles \/ GenChatSettles

GenSpec == GenInit /\ [][GenNext]_vars

-----------------------------------------------------------------------------
(* parseJSONResponse taken alone *)

\* The largest number of examples a completion of the model carries.
MaxExamples == 4

ExampleAt(i) == Str("It was a lucid account, part " \o DigitChars[i + 1] \o ".")

\* The values a completion gives to a key; Undefined: the key is absent.
WordValues == { Undefined, Null, Str(""), Str("lucid") }
PhoneticValues == { Undefined, Str(""), Str("/lucid/") }
DefinitionValues == { Undefined, Str(""), Str("Expressed clearly; easy to understand") }
TranslationValues == { Undefined, Null, Str("lucido, claro") }
ExamplesValues ==
  { Undefined, Null, Str("It was a lucid account.") }
    \cup { Arr([ i \in 1..n |-> ExampleAt(i) ]) : n \in 0..MaxExamples }
LevelValues ==
  { Undefined, Null, Str(""), Str("B2"), Str("C1"), Str("C3"), Str("advanced") }

FieldValues ==
  [ word : WordValues, phonetic : PhoneticValues, definition : DefinitionValues,
    translation : TranslationValues, examples : ExamplesValues, level : LevelValues ]

NoFields ==
  [ word |-> Undefined, phonetic |-> Undefined, definition |-> Undefined,
    translation |-> Undefined, examples |-> Undefined, level |-> Undefined ]

FieldOrder == << "word", "phonetic", "definition", "translation", "examples", "level" >>

\* The members of the object that gives these values to its keys.
MembersOf(fields) ==
  LET all == [ i \in 1..Len(FieldOrder) |-> Member(FieldOrder[i], fields[FieldOrder[i]]) ]
  IN  SelectSeq(all, LAMBDA m : m.value # Undefined)

\* The ways a completion carries its object.
Wraps == { "bare", "fence-json", "fence", "prose", "fence-json in prose" }

Wrap(wrap, json) ==
  CASE wrap = "bare" -> json
    [] wrap = "fence-json" -> Fenced(json)
    [] wrap = "fence" -> << Fence, Ws >> \o json \o << Ws, Fence >>
    [] wrap = "prose" -> InProse(json)
    [] wrap = "fence-json in prose" ->
         << Prose("Sure!"), Ws >> \o Fenced(json) \o << Ws, Prose("Enjoy.") >>

\* Texts that are not one JSON object: nothing, prose, the literal null, an
\* object that does not end, a closing brace before an opening one, and two
\* objects.
OtherTexts ==
  { << >>,
    << Ws >>,
    << Prose("I cannot help with that.") >>,
    << NullLiteral >>,
    << LBrace >> \o KeenMembers,
    << RBrace, Ws, LBrace >>,
    Bare(KeenMembers) \o << Ws >> \o Bare(AptMembers) }

ParseInit ==
  /\ PipelineAtRest
  /\ sel = NoSelection
  /\ gen = NoGeneration
  /\ gw = NoOperation
  /\ hist = NoHistory
  /\ srch = NoSearch
  /\ ui = NoBrowser
  /\ \/ \E fields \in FieldValues, wrap \in Wraps :
          parser = [ by |-> "", object |-> TRUE, fields |-> fields, wrap |-> wrap,
                     json |-> Bare(MembersOf(fields)),
                     text |-> Wrap(wrap, Bare(MembersOf(fields))),
                     out |-> Undefined, outBare |-> Undefined ]
     \/ \E text \in OtherTexts :
          parser = [ by |-> "", object |-> FALSE, fields |-> NoFields, wrap |-> "bare",
                     json |-> text, text |-> text,
                     out |-> Undefined, outBare |-> Undefined ]

\* parseJSONResponse applied to the text, and to the object text alone.
ParseText ==
  /\ parser.by = ""
  /\ parser' = [ parser EXCEPT !.by = "parseJSONResponse",
                               !.out = parseJSONResponse(parser.text),
                               !.outBare = parseJSONResponse(parser.json) ]
  /\ UNCHANGED << pipeline, sel, gen, gw, hist, srch, ui >>

ParseNext == ParseText

ParseSpec == ParseInit /\ [][ParseNext]_vars

-----------------------------------------------------------------------------
(* WordsDatabase taken alone *)

\* What an awaited query resolves to: { data, error }, or Thrown when the
\* await rejects.
Resolved(data, error) == [ kind |-> "response", data |-> data, error |-> error ]

PostgrestError(code, message) == [ code |-> code, message |-> message ]

\* A transport failure reported as an error, a missing relation, no (or
\* more than one) row for single(), and a row-level-security violation.
StoreErrors ==
  { PostgrestError("", "TypeError: fetch failed"),
    PostgrestError("42P01", "relation \"public.daily_words\" does not exist"),
    PostgrestError("PGRST116", "JSON object requested, multiple (or no) rows returned"),
    PostgrestError("42501", "new row violates row-level security policy") }

FailedResponses == { Thrown } \cup { Resolved(Null, error) : error \in StoreErrors }

\* A row of the table, and a second one.
RowOfToday == CHOOSE row \in SampleRows : TRUE
RowOfKeen == WordRecord(Date(2025, 6, 14), AiKeen, "ai")

\* The operations, and what the store can answer to each.
Operations ==
  { "checkConnection", "getWordByDate", "saveWord", "getRecentWords", "searchWords" }

StoreResponses(op) ==
  FailedResponses \cup
    CASE op = "checkConnection" -> { Resolved(Null, Null) }
      [] op = "getWordByDate" -> { Resolved(RowOfToday, Null) }
      [] op = "saveWord" -> { Resolved(RowOfKeen, Null), Resolved(Null, Null) }
      [] OTHER -> { Resolved(Arr(<< >>), Null), Resolved(Arr(<< RowOfToday >>), Null),
                    Resolved(Arr(<< RowOfToday, RowOfKeen >>), Null),
                    Resolved(Null, Null) }

\* The value a method returns, as opposed to an exception leaving it.
Return(value) == [ kind |-> "return", value |-> value ]

\* What a method returns without a client, on an error and in its catch.
Neutral(op) ==
  CASE op = "checkConnection" -> FALSE
    [] op \in { "getWordByDate", "saveWord" } -> Null
    [] OTHER -> Arr(<< >>)

\* Variant of GatewayCatch: the exception leaves the method.
GatewayCatchRethrows(completion, op) == completion

\* try { ... } catch (error) { return <neutral> } of a method.
GatewayCatch(completion, op) ==
  IF completion = Thrown THEN Return(Neutral(op)) ELSE completion

\* The try block of a method, given what the query resolved to.
GatewayTry(op, response) ==
  IF response = Thrown THEN Thrown
  ELSE IF response.error # Null THEN Return(Neutral(op))
  ELSE CASE op = "checkConnection" -> Return(TRUE)
         [] op = "getWordByDate" -> Return(response.data)
         [] op = "saveWord" ->
              \* console.log("Word saved successfully:", data.word)
              IF response.data = Null THEN Thrown ELSE Return(response.data)
         [] OTHER ->
              \* data || []
              Return(IF response.data = Null THEN Arr(<< >>) ELSE response.data)

\* The test `!supabase` of every method, negated.
HasClient(client) == client

GwInit ==
  /\ PipelineAtRest
  /\ sel = NoSelection
  /\ gen = NoGeneration
  /\ parser = NoParse
  /\ hist = NoHistory
  /\ srch = NoSearch
  /\ ui = NoBrowser
  /\ \E op \in Operations, client \in BOOLEAN :
       \E response \in StoreResponses(op) :
         gw = [ pc |-> "idle", op |-> op, client |-> client, response |-> response,
                storeCalls |-> 0, result |-> Undefined ]

\* A method is called: without a client it returns at once, else it awaits
\* its query.
GwCall ==
  /\ gw.pc = "idle"
  /\ gw' = IF ~HasClient(gw.client)
             THEN [ gw EXCEPT !.pc = "done", !.result = Return(Neutral(gw.op)) ]
             ELSE [ gw EXCEPT !.pc = "query", !.storeCalls = @ + 1 ]
  /\ UNCHANGED << pipeline, sel, gen, parser, hist, srch, ui >>

\* The query settles and the method returns.  Without a client the query
\* builder is null and reading it throws outside the try block.
GwSettles ==
  /\ gw.pc = "query"
  /\ gw' = [ gw EXCEPT !.pc = "done",
                       !.result = IF gw.client
                                    THEN GatewayCatch(GatewayTry(gw.op, gw.response), gw.op)
                                    ELSE GatewayCatch(Thrown, gw.op) ]
  /\ UNCHANGED << pipeline, sel, gen, parser, hist, srch, ui >>

GwNext == GwCall \/ GwSettles

GwSpec == GwInit /\ [][GwNext]_vars

-----------------------------------------------------------------------------
(* The pipeline over more dates, without generator *)

\* "2025-6-15", "20a5-06-15", "2025-06" and "2025-06-15-"
BadDates ==
  { BadDate,
    << << "2", "0", "a", "5" >>, Digits(6, 2), Digits(15, 2) >>,
    << Digits(2025, 4), Digits(6, 2) >>,
    << Digits(2025, 4), Digits(6, 2), Digits(15, 2), << >> >> }

\* Dates of the form YYYY-MM-DD: a day of the calendar, and one that is
\* not ("2024-02-30").
FormattedDates == { Date(2025, 6, 15), Date(2024, 2, 30) }

WideDateInputs == FormattedDates \cup BadDates

DateInit ==
  /\ store = EmptyTable
  /\ words = words28
  /\ hf = FALSE
  /\ IdleClients
  /\ sel = NoSelection
  /\ IdleUnits

DateNext ==
  \E c \in Clients :
    \/ \E d \in WideDateInputs : RejectDate(c, d)
    \/ \E d \in WideDateInputs : Request(c, d)
    \/ CheckConnection(c)
    \/ GetWordByDate(c)
    \/ GenerateWord(c)
    \/ SaveWord(c)

DateSpec == DateInit /\ [][DateNext]_vars

-----------------------------------------------------------------------------
(* The history endpoint taken alone *)

\* The days parameter of a request: absent, or the characters of its value.
AbsentParam == [ present |-> FALSE, chars |-> << >>, number |-> FALSE, value |-> 0 ]

\* The parameter that writes the integer n in decimal.
NumberParam(n) ==
  [ present |-> TRUE,
    chars |-> IF n < 0 THEN << "-" >> \o Digits(0 - n, IF n > -10 THEN 1 ELSE 2)
              ELSE Digits(n, IF n < 10 THEN 1 ELSE IF n < 100 THEN 2 ELSE 4),
    number |-> TRUE, value |-> n ]

\* A parameter that is not an integer: "", "abc", "12abc", "7.9", " 45".
TextParam(chars) == [ present |-> TRUE, chars |-> chars, number |-> FALSE, value |-> 0 ]

DaysParams ==
  { AbsentParam }
    \cup { NumberParam(n) : n \in { -20, -5, -1, 0, 1, 7, 12, 30, 45, 59, 60, 61, 365, 1000 } }
    \cup { TextParam(<< >>), TextParam(<< "a", "b", "c" >>),
           TextParam(<< "1", "2", "a", "b", "c" >>), TextParam(<< "7", ".", "9" >>),
           TextParam(<< " ", "4", "5" >>) }

\* Math.min(a, b)
MathMin(a, b) == IF a = NaN \/ b = NaN THEN NaN ELSE IF a < b THEN a ELSE b

\* Math.min(Number.parseInt(searchParams.get("days") || "30"), 60)
EffectiveDays(param) ==
  MathMin(ParseInt(IF ~param.present \/ param.chars = << >>
                     THEN << "3", "0" >> ELSE param.chars), 60)

\* array.slice(0, end): NaN counts as 0, a negative end is counted from the
\* end of the array.
SliceTo(array, end) ==
  LET k == IF end = NaN THEN 0
           ELSE IF end < 0 THEN (IF Len(array) + end < 0 THEN 0 ELSE Len(array) + end)
           ELSE IF end > Len(array) THEN Len(array)
           ELSE end
  IN  SubSeq(array, 1, k)

\* FallbackWordsSystem.getRecentWords
getRecentWords(days, catalog) == SliceTo(catalog, MathMin(days, Len(catalog)))

\* The rows the table can hold for the endpoint, most recent first.
RecentRows == << RowOfToday, RowOfKeen >>

\* What WordsDatabase.getRecentWords(limit) can return: nothing (an error,
\* an empty table), or the first rows up to a limit of 1 or more.
RecentResults(limit) ==
  { << >> } \cup
    ( IF limit = NaN \/ limit < 1 THEN { }
      ELSE { SubSeq(RecentRows, 1, n) : n \in 1..(IF limit < 2 THEN limit ELSE 2) } )

\* No argument was passed yet.
NotAsked == << >>

HistInit ==
  /\ PipelineAtRest
  /\ sel = NoSelection
  /\ gen = NoGeneration
  /\ parser = NoParse
  /\ gw = NoOperation
  /\ srch = NoSearch
  /\ ui = NoBrowser
  /\ \E param \in DaysParams :
       hist = [ pc |-> "idle", param |-> param, days |-> 0,
                limitAsked |-> NotAsked, daysAsked |-> NotAsked,
                status |-> 0, body |-> << >> ]

\* The response: the fallback catalog's words for this many days.
HistFallback(h, days) ==
  [ h EXCEPT !.pc = "done", !.status = 200, !.daysAsked = << days >>,
             !.body = getRecentWords(days, fallbackWords) ]

\* A request: days is computed, then `await WordsDatabase.checkConnection()`.
HistRequest ==
  /\ hist.pc = "idle"
  /\ hist' = [ hist EXCEPT !.pc = "checkConnection",
                           !.days = EffectiveDays(hist.param) ]
  /\ UNCHANGED << pipeline, sel, gen, parser, gw, srch, ui >>

\* The check settles: not connected, the fallback words; a throw, the catch
\* block's fallback words for 30 days; else getRecentWords(days) is awaited.
HistCheckSettles ==
  /\ hist.pc = "checkConnection"
  /\ \E result \in { "true", "false", "throw" } :
       hist' = CASE result = "throw" -> HistFallback(hist, 30)
                 [] result = "false" -> HistFallback(hist, hist.days)
                 [] OTHER -> [ hist EXCEPT !.pc = "getRecentWords",
                                           !.limitAsked = << hist.days >> ]
  /\ UNCHANGED << pipeline, sel, gen, parser, gw, srch, ui >>

\* getRecentWords settles: rows are the response, no rows the fallback
\* words, a throw the catch block's.
HistRecentSettles ==
  /\ hist.pc = "getRecentWords"
  /\ \/ hist' = HistFallback(hist, 30)
     \/ \E wordsFromDB \in RecentResults(hist.days) :
          hist' = IF Len(wordsFromDB) > 0
                    THEN [ hist EXCEPT !.pc = "done", !.status = 200,
                                       !.body = wordsFromDB ]
                    ELSE HistFallback(hist, hist.days)
  /\ UNCHANGED << pipeline, sel, gen, parser, gw, srch, ui >>

HistNext == HistRequest \/ HistCheckSettles \/ HistRecentSettles

HistSpec == HistInit /\ [][HistNext]_vars

-----------------------------------------------------------------------------
(* The search endpoint taken alone *)

UpperCase == << "A", "B", "C", "D", "E", "F", "G", "H", "I", "J", "K", "L", "M",
                "N", "O", "P", "Q", "R", "S", "T", "U", "V", "W", "X", "Y", "Z" >>
LowerCase == << "a", "b", "c", "d", "e", "f", "g", "h", "i", "j", "k", "l", "m",
                "n", "o", "p", "q", "r", "s", "t", "u", "v", "w", "x", "y", "z" >>

\* string.toLowerCase(), on a sequence of characters
toLowerCase(s) ==
  [ i \in 1..Len(s) |->
      IF \E k \in 1..26 : UpperCase[k] = s[i]
        THEN LowerCase[CHOOSE k \in 1..26 : UpperCase[k] = s[i]]
        ELSE s[i] ]

\* string.includes(query)
includes(text, query) ==
  \E i \in 0..(Len(text) - Len(query)) : SubSeq(text, i + 1, i + Len(query)) = query

\* string.trim(), on a sequence of characters
RECURSIVE TrimLeft(_)
TrimLeft(s) == IF s # << >> /\ Head(s) = " " THEN TrimLeft(Tail(s)) ELSE s

RECURSIVE TrimRight(_)
TrimRight(s) ==
  IF s # << >> /\ s[Len(s)] = " " THEN TrimRight(SubSeq(s, 1, Len(s) - 1)) ELSE s

trim(s) == TrimRight(TrimLeft(s))

\* text LIKE pattern: % stands for any characters, _ for any one character.
RECURSIVE Like(_, _)
Like(text, pattern) ==
  IF pattern = << >> THEN text = << >>
  ELSE IF Head(pattern) = "%"
    THEN Like(text, Tail(pattern)) \/ (text # << >> /\ Like(Tail(text), pattern))
  ELSE /\ text # << >>
       /\ Head(pattern) = "_" \/ Head(pattern) = Head(text)
       /\ Like(Tail(text), Tail(pattern))

\* column.ilike.%query%
ilike(text, query) ==
  Like(toLowerCase(text), << "%" >> \o toLowerCase(query) \o << "%" >>)

\* .limit(50)
SearchLimit == 50

\* FallbackWordsSystem.searchWords
searchWords(query, catalog) ==
  LET lowerQuery == toLowerCase(query)
      Matches(word) ==
        \/ includes(toLowerCase(word.word), lowerQuery)
        \/ includes(toLowerCase(word.definition), lowerQuery)
        \/ includes(toLowerCase(word.translation), lowerQuery)
  IN  SelectSeq(catalog, Matches)

\* The rows the store's query of WordsDatabase.searchWords selects.
SearchRows(query, table) ==
  LET Matches(row) ==
        \/ ilike(row.word, query)
        \/ ilike(row.definition, query)
        \/ ilike(row.translation, query)
      rows == SelectSeq(table, Matches)
  IN  SubSeq(rows, 1, IF Len(rows) < SearchLimit THEN Len(rows) ELSE SearchLimit)

\* Tables of daily_words: no rows, three rows, and five rows for each entry
\* of the fallback catalog (more rows than the limit).
SearchTables ==
  { << >>, SubSeq(fallbackText, 1, 3),
    [ i \in 1..(5 * Len(fallbackText)) |-> fallbackText[((i - 1) % Len(fallbackText)) + 1] ] }

\* The q parameter of a request: absent, or its characters.
AbsentQuery == [ present |-> FALSE, chars |-> << >> ]
Query(chars) == [ present |-> TRUE, chars |-> chars ]

SearchQueries ==
  { AbsentQuery, Query(<< >>), Query(<< "a" >>), Query(<< " ", "a", " " >>),
    Query(<< "k", "e" >>), Query(<< "S", "E", "R" >>), Query(<< " ", "c", "a", " " >>),
    Query(<< "i", "n" >>), Query(<< "o", "r", " " >>), Query(<< "z", "z" >>),
    Query(<< "_", "_" >>), Query(<< "q", "_", "i" >>) }

SrchInit ==
  /\ PipelineAtRest
  /\ sel = NoSelection
  /\ gen = NoGeneration
  /\ parser = NoParse
  /\ gw = NoOperation
  /\ hist = NoHistory
  /\ ui = NoBrowser
  /\ \E query \in SearchQueries, table \in SearchTables :
       srch = [ pc |-> "idle", query |-> query, table |-> table,
                status |-> 0, from |-> "", body |-> << >> ]

\* The response: the fallback catalog's matches of the query.
SrchFallback(s, query) ==
  [ s EXCEPT !.pc = "done", !.status = 200, !.from = "fallback",
             !.body = searchWords(query, fallbackText) ]

\* A request: 400 for a missing or short query, else
\* `await WordsDatabase.checkConnection()`.
SrchRequest ==
  /\ srch.pc = "idle"
  /\ srch' = IF ~srch.query.present \/ srch.query.chars = << >>
                \/ Len(trim(srch.query.chars)) < 2
               THEN [ srch EXCEPT !.pc = "done", !.status = 400 ]
               ELSE [ srch EXCEPT !.pc = "checkConnection" ]
  /\ UNCHANGED << pipeline, sel, gen, parser, gw, hist, ui >>

\* The check settles: not connected, the fallback matches of the trimmed
\* query; a throw, the catch block's fallback matches of the query as sent;
\* else searchWords(query.trim()) is awaited.
SrchCheckSettles ==
  /\ srch.pc = "checkConnection"
  /\ \E result \in { "true", "false", "throw" } :
       srch' = CASE result = "throw" -> SrchFallback(srch, srch.query.chars)
                 [] result = "false" -> SrchFallback(srch, trim(srch.query.chars))
                 [] OTHER -> [ srch EXCEPT !.pc = "searchWords" ]
  /\ UNCHANGED << pipeline, sel, gen, parser, gw, hist, ui >>

\* searchWords settles: the selected rows, or nothing (an error); rows are
\* the response, no rows the fallback matches, a throw the catch block's.
SrchSearchSettles ==
  /\ srch.pc = "searchWords"
  /\ \/ srch' = SrchFallback(srch, srch.query.chars)
     \/ \E found \in { << >>, SearchRows(trim(srch.query.chars), srch.table) } :
          srch' = IF Len(found) > 0
                    THEN [ srch EXCEPT !.pc = "done", !.status = 200,
                                       !.from = "store", !.body = found ]
                    ELSE SrchFallback(srch, trim(srch.query.chars))
  /\ UNCHANGED << pipeline, sel, gen, parser, gw, hist, ui >>

SrchNext == SrchRequest \/ SrchCheckSettles \/ SrchSearchSettles

SrchSpec == SrchInit /\ [][SrchNext]_vars

-----------------------------------------------------------------------------
(* The browser client *)

\* The days the user can navigate over; the last one is today.
Days == << Date(2025, 6, 13), Date(2025, 6, 14), Date(2025, 6, 15) >>
Today == Len(Days)

\* At most this many fetches are issued in one run.
MaxFetches == 4

\* format(date, "yyyy-MM-dd")
format(day) == Days[day]

\* What a fetch of /api/word/<date> can be answered with: a record of the
\* date with a source, a non-ok status, or a body without a word.
FetchOutcomes == { "ai", "manual", "curated", "database_unavailable", "emergency",
                   "http-error", "invalid" }

\* The record of the response, word and date only.
ResponseWord(d, source) == [ word |-> "keen", date |-> d, source |-> source ]

\* The word the catch block of fetchWordForDate displays.
ClientFallbackWord(d) == [ word |-> "resilient", date |-> d, source |-> "emergency" ]

\* newDatabaseStatus
DatabaseStatus(source) ==
  IF source \in { "database_unavailable", "emergency" } THEN "fallback"
  ELSE IF source \in { "ai", "manual", "ai_fallback" } THEN "connected"
  ELSE "unknown"

\* The state of DailyEnglishApp after its construction: the useState
\* initial values, no fetch issued.
UiInit ==
  /\ PipelineAtRest
  /\ sel = NoSelection
  /\ gen = NoGeneration
  /\ parser = NoParse
  /\ gw = NoOperation
  /\ hist = NoHistory
  /\ srch = NoSearch
  /\ ui = [ pc |-> "constructed", currentDate |-> Today, currentWord |-> Null,
            loading |-> FALSE, error |-> FALSE, databaseStatus |-> "",
            inflight |-> << >>, issued |-> 0 ]

\* fetchWordForDate(date) up to `await fetch(...)`.
Fetching(u, day) ==
  [ u EXCEPT !.loading = TRUE, !.error = FALSE,
             !.inflight = Append(@, day), !.issued = @ + 1 ]

\* The first render: the effect on currentDate fetches today's word.
UiMount ==
  /\ ui.pc = "constructed"
  /\ ui' = Fetching([ ui EXCEPT !.pc = "mounted" ], ui.currentDate)
  /\ UNCHANGED << pipeline, sel, gen, parser, gw, hist, srch >>

\* navigateDate("prev") or ("next"), and the effect on currentDate that
\* follows: the word of the new date is fetched.  The Next Day button is
\* disabled on today.
navigateDate(direction) ==
  /\ ui.pc = "mounted"
  /\ ui.issued < MaxFetches
  /\ LET day == IF direction = "prev" THEN ui.currentDate - 1 ELSE ui.currentDate + 1
     IN  /\ direction = "next" => ui.currentDate < Today
         /\ day \in 1..Len(Days)
         /\ ui' = Fetching([ ui EXCEPT !.currentDate = day ], day)
  /\ UNCHANGED << pipeline, sel, gen, parser, gw, hist, srch >>

\* The fetch at position i of those in flight settles and fetchWordForDate
\* runs to its end: the word received, or the catch block's word, is
\* displayed, and the finally block clears loading.
fetchWordForDate(i, outcome) ==
  /\ ui.pc = "mounted"
  /\ i \in 1..Len(ui.inflight)
  /\ LET day == ui.inflight[i]
         rest == SubSeq(ui.inflight, 1, i - 1) \o SubSeq(ui.inflight, i + 1, Len(ui.inflight))
         failed == outcome \in { "http-error", "invalid" }
     IN  ui' = [ ui EXCEPT
                   !.inflight = rest,
                   !.currentWord = IF failed THEN ClientFallbackWord(format(day))
                                   ELSE ResponseWord(format(day), outcome),
                   !.error = failed,
                   !.databaseStatus = IF failed THEN "fallback" ELSE DatabaseStatus(outcome),
                   !.loading = FALSE ]
  /\ UNCHANGED << pipeline, sel, gen, parser, gw, hist, srch >>

UiNext ==
  \/ UiMount
  \/ \E direction \in { "prev", "next" } : navigateDate(direction)
  \/ \E i \in 1..MaxFetches, outcome \in FetchOutcomes : fetchWordForDate(i, outcome)

UiSpec == UiInit /\ [][UiNext]_vars

-----------------------------------------------------------------------------
(* Properties *)

\* A structurally valid WordRecord.
IsWordRecord(r) ==
  /\ { "date", "word", "definition", "translation", "examples", "level", "source" }
       \subseteq DOMAIN r
  /\ r.word # "" /\ r.definition # "" /\ r.translation # ""
  /\ Len(r.examples) >= 1
  /\ r.level # "" /\ r.source # ""

\* The request completed last was answered with a record.
Answered == last.status = 200

\* The 0-based index (year + month + day) mod n, for the date 2025-06-15.
IndexOf20250615(n) == (2025 + 6 + 15) % n

\* generateWord handed back a validated record with a word of 4 or more
\* characters, and the generator was available.
AiAccepted(available, w) ==
  available /\ w \in GeneratedWords /\ Len(w.word) >= 4

\* C1: every request with a date matching YYYY-MM-DD is answered with status
\* 200 and a record with a non-empty word, definition and translation, at
\* least one example, a level and a source, whatever the connectivity check,
\* the lookup, the generator and the save did; nothing but a record is ever
\* the candidate or the response (no exception leaves the handler).
C1_AlwaysValidRecord ==
  /\ (last.status # 0 /\ MatchesDateFormat(last.date))
       => (last.status = 200 /\ IsWordRecord(last.body))
  /\ \A c \in Clients : pc[c] = "saveWord" => IsWordRecord(newWordData[c])

C1_Witness ==
  /\ Answered
  /\ last.calls.ai = 1
  /\ last.aiWord = Null
  /\ last.save = "throw"
  /\ IsWordRecord(last.body)

\* C2: when the connectivity check returned false or threw, the response is
\* the old fallback catalog's entry for the date (for 2025-06-15 the word
\* "ephemeral", entry 2046 mod 12) tagged database_unavailable, and the
\* request made one connectivity check and no lookup, generator call or save.
C2_UnreachableStore ==
  (Answered /\ last.calls.checkResult \in { "false", "throw" }) =>
    /\ last.body.source = "database_unavailable"
    /\ \E i \in 1..Len(fallbackWords) :
         last.body = [ fallbackWords[i] EXCEPT !.date = last.date,
                                               !.source = "database_unavailable" ]
    /\ last.date = Date(2025, 6, 15) => last.body.word = "ephemeral"
    /\ last.calls.check = 1
    /\ last.calls.lookup = 0 /\ last.calls.ai = 0 /\ last.calls.save = 0

C2_Witness ==
  /\ Answered
  /\ last.calls.checkResult = "throw"
  /\ last.body.source = "database_unavailable"

\* How the lookup of client c settled in the step just taken.
LookupSettledAs(c) ==
  IF pc'[c] = "idle" THEN last'.calls.lookupResult ELSE calls'[c].lookupResult

\* C3: a lookup that returns data while the table holds a row for the date
\* ends the request with exactly that row as the response (unless building
\* the response throws, C6), with no generator call and no save, and the
\* table is left as it was.
C3_StoredRowReturned ==
  [][ \A c \in Clients :
        ( /\ pc[c] = "getWordByDate" /\ pc'[c] # "getWordByDate"
          /\ RowOf(store, date[c]) # Null
          /\ LookupSettledAs(c) = "data" )
        => /\ pc'[c] = "idle"
           /\ last'.status = 200
           /\ last'.caught \/ last'.body = RowOf(store, date[c])
           /\ last'.calls.ai = 0 /\ last'.calls.save = 0
           /\ store' = store ]_vars

C3_Witness ==
  /\ Answered
  /\ last.calls.lookupResult = "data"
  /\ ~last.caught
  /\ last.body = RowOf(store, last.date)
  /\ last.body.source = "manual"

\* C4: the candidate of a connected request without a stored row is tagged ai
\* exactly when the generator was available and returned a validated record
\* whose word has more than 3 characters, and it then carries that record's
\* fields; otherwise, with a catalog the selector can read, it is the Smart
\* Word Bank entry of the date tagged curated.
C4_CandidateSource ==
  \A c \in Clients :
    pc[c] = "saveWord" =>
      /\ newWordData[c].source = "ai" <=> AiAccepted(hf, aiWord[c])
      /\ AiAccepted(hf, aiWord[c]) =>
           newWordData[c] = WordRecord(date[c], aiWord[c], "ai")
      /\ (~AiAccepted(hf, aiWord[c]) /\ words # << >>) =>
           /\ newWordData[c].source = "curated"
           /\ \E i \in 1..Len(words) :
                newWordData[c] = WordRecord(date[c], words[i], "curated")

C4_Witness ==
  \E c \in Clients :
    /\ pc[c] = "saveWord"
    /\ hf
    /\ aiWord[c] = AiApt
    /\ newWordData[c].source = "curated"

\* C5: when saveWord returned an error or threw, the response is the
\* candidate as it was before the save, source included, and neither an
\* error nor an emergency or hardcoded record.
C5_FailedSaveKeepsCandidate ==
  (last.save \in { "error", "throw" }) =>
    /\ last.status = 200
    /\ last.body = last.newWordData
    /\ IsWordRecord(last.body)
    /\ last.body.source \in { "ai", "curated", "generation_error" }
    /\ ~last.caught

C5_Witness ==
  /\ last.save = "error"
  /\ last.body = last.newWordData
  /\ last.body.source = "ai"

\* C6: when the catch block of GET ran, the response is the Smart Word Bank
\* entry of the date tagged emergency, or, when that selection throws, the
\* literal record "resilient" tagged hardcoded; no other record, in a
\* response, as a candidate or in the table, is tagged hardcoded.
C6_EmergencyThenHardcoded ==
  /\ last.caught =>
       IF words # << >>
         THEN /\ \E i \in 1..Len(words) :
                   last.body = WordRecord(last.date, words[i], "emergency")
              /\ last.date = Date(2025, 6, 15) =>
                   last.body.word = words[IndexOf20250615(Len(words)) + 1].word
         ELSE /\ last.body.word = "resilient"
              /\ last.body.source = "hardcoded"
              /\ last.body.date = last.date
              /\ IsWordRecord(last.body)
  /\ (Answered /\ last.body.source = "hardcoded") =>
       (last.caught /\ last.body.word = "resilient")
  /\ \A c \in Clients :
       pc[c] = "saveWord" => newWordData[c].source # "hardcoded"
  /\ \A row \in store : row.source # "hardcoded"

C6_Witness ==
  /\ Answered
  /\ last.caught
  /\ last.body.source = "hardcoded"
  /\ last.body.word = "resilient"

\* A response of one of the two branches that select from a catalog.
SelectedFromCatalog(l) ==
  l.status = 200 /\ l.body.source \in { "database_unavailable", "curated" }

\* C7: without the generator, two requests for the same date served one after
\* the other from the database_unavailable branch or the curated branch carry
\* the same word.
C7_OneWordPerDate ==
  [][ ( /\ ~hf
        /\ SelectedFromCatalog(last) /\ SelectedFromCatalog(last')
        /\ last'.date = last.date )
      => last'.body.word = last.body.word ]_vars

\* The response was built by this request, not loaded from the table.
ProducedNow == Answered /\ (last.existingWord = Null \/ last.caught)

\* C8: every response record has a source, and a record built by the request
\* is tagged after its branch: database_unavailable exactly when the
\* connectivity check failed, ai exactly when a generator record was
\* accepted, curated exactly when the Smart Word Bank entry was used in its
\* place, emergency or hardcoded exactly when the catch block ran.
C8_SourceNamesBranch ==
  /\ Answered => ("source" \in DOMAIN last.body /\ last.body.source # "")
  /\ ProducedNow =>
       /\ last.body.source = "database_unavailable"
            <=> last.calls.checkResult \in { "false", "throw" }
       /\ last.body.source = "ai"
            <=> (last.calls.save = 1 /\ ~last.caught /\ AiAccepted(hf, last.aiWord))
       /\ last.body.source = "curated"
            <=> ( /\ last.calls.save = 1 /\ ~last.caught
                  /\ ~AiAccepted(hf, last.aiWord) /\ words # << >> )
       /\ last.body.source \in { "emergency", "hardcoded" } <=> last.caught

C8_Witness ==
  /\ ProducedNow
  /\ last.caught
  /\ last.body.source = "emergency"

\* A request for 2025-06-15 on a connected store without a row for the date,
\* without a generator credential, with the 30-entry catalog.
Curated20250615 ==
  /\ Answered
  /\ last.date = Date(2025, 6, 15)
  /\ words = words30 /\ Len(words) = 30
  /\ ~hf
  /\ last.calls.checkResult = "true" /\ last.calls.save = 1
  /\ ~last.caught

\* C9 as stated: that request is answered with source curated and the word of
\* catalog[16].
C9_CatalogIndex16 ==
  Curated20250615 =>
    (last.body.source = "curated" /\ last.body.word = words[16 + 1].word)

\* C9 amended: that request is answered with source curated and the word of
\* catalog[(2025 + 6 + 15) mod 30], which is catalog[6].
C9_CatalogIndex6 ==
  Curated20250615 =>
    /\ last.body.source = "curated"
    /\ IndexOf20250615(30) = 6
    /\ last.body.word = words[6 + 1].word
    /\ last.body.word = "significant"

C9_Witness ==
  /\ Curated20250615
  /\ last.body.source = "curated"
  /\ last.body.word = "significant"

\* The catalog entry a selector result was copied from, date aside.
SameEntry(x, y) ==
  /\ DOMAIN x = DOMAIN y
  /\ \A k \in (DOMAIN x) \ { "date" } : x[k] = y[k]

\* year + month + day of a selector input.
ComponentSum(t) == t[1] + t[2] + t[3]

\* C10: with a catalog of N > 0 entries, each selector returns the entry at
\* index (year + month + day) mod N: two calls with the same date return the
\* same entry, and so do two dates whose sums are equal mod N.
C10_SelectorBySumModN ==
  (sel.by # "" /\ Len(sel.catalog) > 0) =>
    LET n == Len(sel.catalog)
        entryA == sel.catalog[(ComponentSum(sel.a) % n) + 1]
    IN  /\ \A k \in DOMAIN entryA : k # "date" => sel.outA[k] = entryA[k]
        /\ (ComponentSum(sel.a) % n = ComponentSum(sel.b) % n)
             => SameEntry(sel.outA, sel.outB)
        /\ sel.a = sel.b => sel.outA = sel.outB

C10_Witness ==
  /\ sel.by = "getWordForDate"
  /\ sel.a = << 2024, 1, 5 >> /\ sel.b = << 2024, 5, 1 >>
  /\ sel.catalog = words28
  /\ sel.outA = sel.outB
  /\ sel.outA.word = "sophisticated"

-----------------------------------------------------------------------------
(* Claims about the generator *)

\* The payload is a non-empty array of strings; its first element is one.
IsArrayOfStrings(json) ==
  /\ json.kind = "array"
  /\ Len(json.items) > 0
  /\ \A i \in 1..Len(json.items) : json.items[i].kind = "string"

FirstIsString(json) ==
  /\ json.kind = "array"
  /\ Len(json.items) > 0
  /\ json.items[1].kind = "string"

GenNeverThrows(payloadIsAccepted(_)) ==
  gen.pc = "done" =>
    /\ gen.result # Thrown
    /\ ( \/ ~gen.available
         \/ gen.seed = Thrown
         \/ gen.seed # Thrown /\ ~gen.seed.ok
         \/ gen.seed # Thrown /\ ~payloadIsAccepted(gen.seed.json)
         \/ gen.chat \in FailingChats ) => gen.result = Null

\* C11 as stated: generate never throws, and a missing credential, a seed
\* failure (network error, non-success status, payload that is not a
\* non-empty array of strings), a transport error of the inference call, an
\* empty or unparsable completion and a validation failure all give null.
C11_NeverThrowsArrayOfStrings == GenNeverThrows(IsArrayOfStrings)

\* C11 amended: the same, the payload failure being a payload that is not a
\* non-empty array whose first element is a string.
C11_NeverThrows == GenNeverThrows(FirstIsString)

\* An unparsable completion was received and the result is null.
C11_Witness ==
  /\ gen.pc = "done"
  /\ gen.inferenceCalls = 1
  /\ gen.chat = ChatWithContent(<< Prose("I cannot help with that.") >>)
  /\ gen.result = Null

\* C12 as stated: every invocation makes exactly one call to the seed-word
\* source and at most one call to the inference provider, neither is
\* repeated, and the inference provider is called only after the seed-word
\* source returned a valid seed.
C12_OneSeedCallAlways ==
  /\ gen.pc # "" => gen.seedCalls <= 1 /\ gen.inferenceCalls <= 1
  /\ gen.pc = "done" => gen.seedCalls = 1
  /\ (gen.pc # "" /\ gen.inferenceCalls > 0) =>
       /\ gen.seedCalls = 1
       /\ FirstIsString(gen.seed.json)
       /\ gen.randomWord.kind = "string" /\ gen.randomWord.str # ""

\* C12 amended: an invocation with a credential makes exactly one call to
\* the seed-word source and an invocation without one makes no call at all;
\* at most one call goes to the inference provider, neither call is
\* repeated, and the inference provider is called only after the seed-word
\* source returned a valid seed.
C12_OneSeedCallWithCredential ==
  /\ gen.pc # "" => gen.seedCalls <= 1 /\ gen.inferenceCalls <= 1
  /\ gen.pc = "done" =>
       /\ gen.available => gen.seedCalls = 1
       /\ ~gen.available => gen.seedCalls = 0 /\ gen.inferenceCalls = 0
  /\ (gen.pc # "" /\ gen.inferenceCalls > 0) =>
       /\ gen.seedCalls = 1
       /\ FirstIsString(gen.seed.json)
       /\ gen.randomWord.kind = "string" /\ gen.randomWord.str # ""

\* An invocation that called both, and ended.
C12_Witness ==
  /\ gen.pc = "done"
  /\ gen.seedCalls = 1
  /\ gen.inferenceCalls = 1
  /\ gen.result \notin { Null, Thrown }

-----------------------------------------------------------------------------
(* Claims about the response parser *)

Parsed == parser.by = "parseJSONResponse"

NonEmptyString(v) == v.kind = "string" /\ v.str # ""

\* The object has what the validation asks for.
WellFormed(fields) ==
  /\ NonEmptyString(fields.word)
  /\ NonEmptyString(fields.definition)
  /\ NonEmptyString(fields.translation)
  /\ fields.examples.kind = "array"
  /\ Len(fields.examples.items) >= 2

MinOf(a, b) == IF a < b THEN a ELSE b

\* C13: the parser returns a record exactly when the text holds an object
\* with non-empty word, definition and translation and an examples array
\* of at least 2 entries; a record it returns has its six fields set, with
\* 2 or 3 examples that are the first three of the input in order; every
\* other input gives null, and no exception leaves the parser.
C13_RecordOnlyWhenValid ==
  Parsed =>
    /\ parser.out # Thrown
    /\ parser.out # Null <=> (parser.object /\ WellFormed(parser.fields))
    /\ parser.out # Null =>
         /\ DOMAIN parser.out =
              { "word", "phonetic", "definition", "translation", "examples", "level" }
         /\ parser.out.word = parser.fields.word
         /\ parser.out.definition = parser.fields.definition
         /\ parser.out.translation = parser.fields.translation
         /\ NonEmptyString(parser.out.phonetic)
         /\ NonEmptyString(parser.out.level)
         /\ parser.out.examples.kind = "array"
         /\ Len(parser.out.examples.items) \in 2..3
         /\ parser.out.examples.items =
              SubSeq(parser.fields.examples.items, 1,
                     MinOf(3, Len(parser.fields.examples.items)))

\* An object with more than three examples, in a code fence, was parsed
\* into a record.
C13_Witness ==
  /\ Parsed
  /\ parser.wrap = "fence-json"
  /\ Len(MembersOf(parser.fields)) = 6
  /\ parser.fields.examples.kind = "array"
  /\ Len(parser.fields.examples.items) > 3
  /\ parser.out # Null
  /\ Len(parser.out.examples.items) = 3

\* C14: every record the generator returns has a level of the proficiency
\* enumeration; a parsed level that is absent or not of the enumeration
\* gives the level B2.
C14_LevelOfEnumeration ==
  (Parsed /\ parser.out # Null) =>
    /\ parser.out.level.kind = "string"
    /\ parser.out.level.str \in LevelCheck
    /\ ~(parser.fields.level.kind = "string" /\ parser.fields.level.str \in LevelCheck)
         => parser.out.level = Str("B2")

\* C16: an object text in code-fence markers, or surrounded by prose
\* without braces, or both, is parsed to what the object text alone is
\* parsed to.
C16_WrappingIgnored ==
  (Parsed /\ parser.object) => parser.out = parser.outBare

\* A record was parsed from an object inside prose and a code fence.
C16_Witness ==
  /\ Parsed
  /\ parser.wrap = "fence-json in prose"
  /\ parser.text # parser.json
  /\ parser.out # Null
  /\ parser.out = parser.outBare

\* C15: no response has source ai with an empty or missing word,
\* definition, translation or examples; when the completion text handed to
\* the parser is malformed or lacks a required field the generator returns
\* null and the request, carried to its end with a catalog to select from,
\* is answered with source curated.
C15_NoIncompleteAiRecord ==
  Answered =>
    /\ last.body.source = "ai" =>
         /\ { "word", "definition", "translation", "examples" } \subseteq DOMAIN last.body
         /\ last.body.word # "" /\ last.body.definition # ""
         /\ last.body.translation # ""
         /\ Len(last.body.examples) >= 2
         /\ last.calls.ai = 1 => last.aiWord \in GeneratedWords
    /\ (last.calls.parse = 1 /\ last.aiWord = Null /\ ~last.caught /\ words # << >>)
         => last.body.source = "curated"
    /\ last.aiWord \in AiOutcomes

\* A completion text was rejected by the parser and the answer is curated.
C15_Witness ==
  /\ Answered
  /\ last.calls.parse = 1
  /\ last.aiWord = Null
  /\ last.body.source = "curated"

-----------------------------------------------------------------------------
(* Claims about the gateway *)

\* C17: no operation of the gateway raises; without a client, on a
\* transport error (thrown or reported), on a missing relation and on a
\* no-matching-row error, checkConnection returns false, getWordByDate and
\* saveWord return null, getRecentWords and searchWords return an empty
\* sequence; without a client no query is made.
C17_GatewayNeverRaises ==
  /\ gw.pc # "" /\ ~gw.client => gw.storeCalls = 0
  /\ gw.pc # "" => gw.storeCalls <= 1
  /\ gw.pc = "done" =>
       /\ gw.result # Thrown
       /\ gw.result.kind = "return"
       /\ (~gw.client \/ gw.response \in FailedResponses) =>
            CASE gw.op = "checkConnection" -> gw.result.value = FALSE
              [] gw.op \in { "getWordByDate", "saveWord" } -> gw.result.value = Null
              [] OTHER -> gw.result.value = Arr(<< >>)

\* getWordByDate met the no-matching-row error and returned null.
C17_Witness ==
  /\ gw.pc = "done"
  /\ gw.op = "getWordByDate"
  /\ gw.client
  /\ gw.response # Thrown
  /\ gw.response.error # Null
  /\ gw.response.error.code = "PGRST116"
  /\ gw.result = Return(Null)

-----------------------------------------------------------------------------
(* Claims about concurrent requests and about the date parameter *)

\* C18: under every interleaving the table holds at most one row per date;
\* the table changes only in a step that completes a successful save, and
\* after that step the row of the date is what that save wrote, so that
\* after all saves of a date the row is the content of the last one.
C18_LastWriteWins ==
  [][ /\ \A row \in store' : Cardinality(RowsOf(store', row.date)) = 1
      /\ store' # store =>
           /\ last'.savedWord # Null
           /\ \A row \in store' : row.date # last'.date => row \in store
      /\ (last' # last /\ last'.savedWord # Null) =>
           RowsOf(store', last'.date) = { last'.savedWord } ]_vars

\* Two requests for the same date found no row and generated different
\* candidates; one has saved, the other is about to.
C18_Witness ==
  /\ Answered
  /\ last.savedWord # Null
  /\ last.existingWord = Null
  /\ RowsOf(store, last.date) = { last.savedWord }
  /\ \E c \in Clients :
       /\ pc[c] = "saveWord"
       /\ date[c] = last.date
       /\ newWordData[c] # last.savedWord

\* The date has the form YYYY-MM-DD: three parts of 4, 2 and 2 characters,
\* each character one of the ten digits.
IsYearMonthDay(d) ==
  /\ Len(d) = 3
  /\ << Len(d[1]), Len(d[2]), Len(d[3]) >> = << 4, 2, 2 >>
  /\ \A p \in 1..3 : \A i \in 1..Len(d[p]) :
       d[p][i] \in { "0", "1", "2", "3", "4", "5", "6", "7", "8", "9" }

\* C19: a request whose date is not of the form YYYY-MM-DD is answered with
\* status 400 without any connectivity check, lookup, generator call or
\* save; a request whose date is of that form is never answered before its
\* connectivity check and is answered with status 200 and a record.
C19_BadDateRejectedFirst ==
  /\ \A c \in Clients : pc[c] # "idle" => IsYearMonthDay(date[c])
  /\ last.status # 0 =>
       IF IsYearMonthDay(last.date)
         THEN /\ last.status = 200
              /\ IsWordRecord(last.body)
              /\ last.calls.check = 1
         ELSE /\ last.status = 400
              /\ DOMAIN last.body = { "error" }
              /\ last.calls = NoCalls

\* A date with a one-digit month was rejected, and a request for
\* "2024-02-30" is past its connectivity check.
C19_Witness ==
  /\ last.status = 400
  /\ last.date = BadDate
  /\ last.calls = NoCalls
  /\ \E c \in Clients : pc[c] = "getWordByDate" /\ date[c] = Date(2024, 2, 30)

-----------------------------------------------------------------------------
(* Claims about the history endpoint *)

\* C20: the effective days value is in [0, 60] for every days parameter:
\* above 60 it is 60, below 0 it is 0, absent it is 30; the store and the
\* fallback catalog are never asked for a negative or non-numeric number of
\* records.
C20_DaysClamped ==
  hist.pc \notin { "", "idle" } =>
    /\ hist.days # NaN /\ hist.days \in 0..60
    /\ ~hist.param.present => hist.days = 30
    /\ (hist.param.number /\ hist.param.value > 60) => hist.days = 60
    /\ (hist.param.number /\ hist.param.value < 0) => hist.days = 0
    /\ (hist.param.number /\ hist.param.value \in 0..60) => hist.days = hist.param.value
    /\ \A i \in 1..Len(hist.limitAsked) : hist.limitAsked[i] \in 0..60
    /\ \A i \in 1..Len(hist.daysAsked) : hist.daysAsked[i] \in 0..60

-----------------------------------------------------------------------------
(* Claims about the search endpoint *)

\* The record has the query, in any case, in its word, definition or
\* translation.
ContainsQuery(record, query) ==
  \E field \in { record.word, record.definition, record.translation } :
    \E i \in 0..(Len(field) - Len(query)) :
      toLowerCase(SubSeq(field, i + 1, i + Len(query))) = toLowerCase(query)

\* C21: for a query of at least 2 characters, every record of the response of
\* search contains the query case-insensitively in its word, definition or
\* translation, and the response has at most 50 records, from the store and
\* from the fallback catalog alike.
C21_SearchResultsContainQuery ==
  (srch.pc = "done" /\ srch.status = 200) =>
    /\ Len(srch.body) <= 50
    /\ \A i \in 1..Len(srch.body) : ContainsQuery(srch.body[i], trim(srch.query.chars))

-----------------------------------------------------------------------------
(* Claims about the order of the pipeline's steps *)

\* The external calls of client c's request after a step: those of the
\* response when the step completed the request.
CallsAfter(c) ==
  IF pc[c] # "idle" /\ pc'[c] = "idle" THEN last'.calls ELSE calls'[c]

\* C22: within one request the external calls are made in the order
\* connectivity check, lookup, AI generation, save, each at most once: the
\* lookup only after a successful check, generation only after the lookup
\* returned no row, the save only after a candidate was produced in the
\* same request.
C22_FixedCallOrder ==
  [][ \A c \in Clients :
        LET before == calls[c]
            after == CallsAfter(c)
        IN  /\ after.check <= 1 /\ after.lookup <= 1 /\ after.ai <= 1 /\ after.save <= 1
            /\ after.check > before.check =>
                 before.lookup = 0 /\ before.ai = 0 /\ before.save = 0
            /\ after.lookup > before.lookup =>
                 /\ before.check = 1 /\ before.checkResult = "true"
                 /\ before.ai = 0 /\ before.save = 0
            /\ after.ai > before.ai =>
                 /\ before.lookup = 1 /\ ~before.lookupFound
                 /\ before.save = 0
            /\ after.save > before.save =>
                 /\ before.check = 1 /\ before.lookup = 1 /\ ~before.lookupFound
                 /\ hf => before.ai = 1
                 /\ newWordData[c] # Null /\ newWordData[c].date = date[c] ]_vars

C22_Witness ==
  /\ last.status = 200 /\ last.body.source = "ai"
  /\ last.calls.check = 1 /\ last.calls.lookup = 1
  /\ last.calls.ai = 1 /\ last.calls.save = 1
  /\ \E c \in Clients : pc[c] = "saveWord" /\ calls[c].ai = 1

\* C23 as stated: once the store holds a row for a date, no step of any
\* request changes the content of that row.
C23_RowNeverChanges ==
  [][ \A row \in store : row \in store' ]_vars

\* C23: a row of the store is changed only by the save of a request for the
\* row's date whose lookup the store did not answer with a row (it was made
\* before the row was stored, or it failed), and the row is then that
\* request's candidate; a request whose lookup returned the row never
\* changes it.
C23_RowChangedOnlyBySaveAfterNoRow ==
  [][ \A row \in store :
        row \notin store' =>
          \E c \in Clients :
            /\ pc[c] = "saveWord" /\ pc'[c] = "idle"
            /\ date[c] = row.date
            /\ ~calls[c].lookupFound
            /\ RowOf(store', row.date) = newWordData[c] ]_vars

\* The last request stored its record, and another request for the date,
\* whose lookup returned no row, is about to save a different record.
C23_Witness ==
  /\ last.save = "data" /\ last.savedWord # Null
  /\ RowOf(store, last.date) = last.savedWord
  /\ \E c \in Clients :
       /\ pc[c] = "saveWord" /\ date[c] = last.date
       /\ calls[c].lookup = 1 /\ ~calls[c].lookupFound
       /\ SatisfiesChecks(newWordData[c])
       /\ newWordData[c] # last.savedWord

-----------------------------------------------------------------------------
(* Claims about concurrent requests without the generator *)

\* The response l was produced against a connected store and is not the
\* setup script's sample row.
FromConnectedStore(l) ==
  /\ l.status = 200 /\ l.calls.checkResult = "true" /\ ~l.caught
  /\ l.body # Null => l.body.source # "manual"

\* Row r was written by a request.
Written(r) == r.source # "manual"

\* C24: without the generator, concurrent requests for one date against a
\* connected store produce identical candidates, and the row stored for the
\* date and the record returned to each caller are that candidate, whatever
\* the interleaving.
C24_SameCandidateWithoutAi ==
  [][ ~hf =>
        /\ \A c1, c2 \in Clients :
             (newWordData[c1] # Null /\ newWordData[c2] # Null /\ date[c1] = date[c2])
               => newWordData[c1] = newWordData[c2]
        /\ \A c \in Clients : \A row \in store :
             (newWordData[c] # Null /\ row.date = date[c] /\ Written(row))
               => row = newWordData[c]
        /\ \A c \in Clients :
             (newWordData[c] # Null /\ date[c] = last.date /\ FromConnectedStore(last))
               => last.body = newWordData[c]
        /\ (FromConnectedStore(last) /\ FromConnectedStore(last') /\ last'.date = last.date)
             => last'.body = last.body
        /\ \A row \in store' :
             (Written(row) /\ FromConnectedStore(last') /\ row.date = last'.date)
               => row = last'.body ]_vars

\* Without the generator, one request stored its record and was answered
\* with it while another request for the date, whose lookup returned no row,
\* holds its candidate.
C24_Witness ==
  /\ ~hf
  /\ FromConnectedStore(last) /\ last.save = "data" /\ last.savedWord # Null
  /\ RowOf(store, last.date) = last.body
  /\ \E c \in Clients :
       /\ pc[c] = "saveWord" /\ date[c] = last.date
       /\ ~calls[c].lookupFound /\ calls[c].lookupResult = ""
       /\ newWordData[c] = last.body

-----------------------------------------------------------------------------
(* Claims about the selectors on an empty catalog *)

\* The selector result is a complete entry of the catalog.
IsCompleteEntry(out, catalog) ==
  /\ out # Thrown
  /\ \E i \in 1..Len(catalog) :
       \A k \in DOMAIN catalog[i] : k # "date" => (k \in DOMAIN out /\ out[k] = catalog[i][k])
  /\ { "word", "definition", "translation", "examples", "level" } \subseteq DOMAIN out
  /\ out.word # "" /\ out.definition # "" /\ out.translation # ""
  /\ Len(out.examples) >= 1

\* C25: with an empty catalog each selector fails with an error and returns
\* no record; with a non-empty catalog and a formatted date (0000-00-00 and
\* calendar-invalid dates included) it returns a complete catalog entry.
C25_SelectorFailsOnlyWhenEmpty ==
  sel.by # "" =>
    \A out \in { sel.outA, sel.outB } :
      IF Len(sel.catalog) = 0 THEN out = Thrown ELSE IsCompleteEntry(out, sel.catalog)

-----------------------------------------------------------------------------
(* Claims about what is saved and returned *)

\* C26: every record the pipeline writes to the store is tagged ai or
\* curated; a record tagged database_unavailable, emergency, hardcoded or
\* generation_error is returned without being saved.
C26_OnlyAiOrCuratedSaved ==
  [][ /\ \A row \in store' \ store : row.source \in { "ai", "curated" }
      /\ \A c \in Clients :
           (pc[c] = "saveWord" /\ pc'[c] = "idle"
              /\ newWordData[c].source \in { "database_unavailable", "emergency",
                                             "hardcoded", "generation_error" })
             => /\ store' = store
                /\ last'.savedWord = Null ]_vars

\* C27: in every branch of the pipeline the date of the returned record is
\* the date requested, and no request modifies the catalog entries.
C27_DateIsRequestedDate ==
  [][ /\ last'.status = 200 => last'.body.date = last'.date
      /\ \A c \in Clients : newWordData'[c] # Null => newWordData'[c].date = date'[c]
      /\ words' = words ]_vars

\* A response of the database_unavailable branch: it carries the requested
\* date, not the date of the catalog entry it was copied from.
C27_Witness ==
  /\ last.status = 200 /\ last.body.source = "database_unavailable"
  /\ last.body.date = Date(2025, 6, 15)
  /\ \E i \in 1..Len(fallbackWords) :
       /\ fallbackWords[i].word = last.body.word
       /\ fallbackWords[i].date # last.body.date

-----------------------------------------------------------------------------
(* Claims about exceptions of the store calls *)

\* How the connectivity check of client c settled in the step just taken.
CheckSettledAs(c) ==
  IF pc'[c] = "idle" THEN last'.calls.checkResult ELSE calls'[c].checkResult

\* C28: an exception of the connectivity check is handled as an unreachable
\* store (the response is tagged database_unavailable), an exception of the
\* lookup as no row found (the request goes on to generation and save);
\* neither produces a record tagged emergency.
C28_StoreExceptionsAbsorbed ==
  [][ \A c \in Clients :
        /\ ( /\ pc[c] = "checkConnection" /\ pc'[c] # "checkConnection"
             /\ CheckSettledAs(c) = "throw" )
           => /\ pc'[c] = "idle"
              /\ last'.status = 200 /\ ~last'.caught
              /\ last'.body.source = "database_unavailable"
              /\ last'.calls.lookup = 0 /\ last'.calls.save = 0
        /\ ( /\ pc[c] = "getWordByDate" /\ pc'[c] # "getWordByDate"
             /\ LookupSettledAs(c) = "throw" )
           => /\ pc'[c] = "generateWord"
              /\ last' = last
        /\ ( /\ pc[c] = "generateWord" /\ pc'[c] # "generateWord"
             /\ calls[c].lookupResult = "throw" )
           => /\ pc'[c] = "saveWord"
              /\ newWordData'[c] # Null
              /\ newWordData'[c].source \in { "ai", "curated", "generation_error" } ]_vars

\* One request was answered database_unavailable after its connectivity
\* check threw, and another, whose lookup threw, holds a candidate to save.
C28_Witness ==
  /\ last.status = 200 /\ last.calls.checkResult = "throw"
  /\ last.body.source = "database_unavailable"
  /\ \E c \in Clients :
       /\ pc[c] = "generateWord" /\ calls[c].lookupResult = "throw"
       /\ RowOf(store, date[c]) # Null

-----------------------------------------------------------------------------
(* Claims about the browser client *)

\* C29: after the user changed the current date any number of times and all
\* issued fetches completed, in any order, the displayed word is the
\* response to the fetch for the selected date; the loading flag is true
\* whenever a fetch is in flight.
C29_DisplayedWordOfSelectedDate ==
  /\ (ui.pc = "mounted" /\ ui.inflight = << >>) =>
       /\ ui.currentWord # Null
       /\ ui.currentWord.date = format(ui.currentDate)
  /\ (ui.pc = "mounted" /\ ui.inflight # << >>) => ui.loading

-----------------------------------------------------------------------------
(* Claims about termination *)

\* The awaits of the handler, in program order.
Position(at) ==
  CASE at = "idle" -> 0
    [] at = "checkConnection" -> 1
    [] at = "getWordByDate" -> 2
    [] at = "generateWord" -> 3
    [] at = "saveWord" -> 4

\* C30: when every external call of a request settles, the request returns a
\* response, after steps that only go forward through the handler (no loop,
\* no retry), and whether or not the calls of other requests ever complete.
C30_EveryRequestReturns ==
  /\ \A c \in Responsive : (pc[c] # "idle") ~> (pc[c] = "idle")
  /\ [][ \A c \in Clients :
           /\ pc'[c] # pc[c] =>
                \/ pc'[c] = "idle"
                \/ Position(pc'[c]) = Position(pc[c]) + 1
           /\ calls'[c] # calls[c] => pc'[c] # pc[c] ]_vars

\* The responsive client was answered from the save step while another
\* request is still waiting for its connectivity check.
C30_Witness ==
  /\ last.status = 200 /\ last.calls.save = 1
  /\ pc[1] = "idle"
  /\ \E c \in Clients \ Responsive : pc[c] = "checkConnection"

====
